---- MODULE Spec2Model ----
(***************************************************************************)
(* A model of the iridium-sniffer receive pipeline core:                   *)
(*   - the IDA multi-burst reassembler (src/ida_decode.c),                 *)
(*   - the IDA burst decoder          (src/ida_decode.c),                  *)
(*   - the SBD multi-packet reassembler and the ACARS parser               *)
(*                                     (src/sbd_acars.c).                  *)
(*                                                                         *)
(* Time.  The code keeps timestamps in nanoseconds (uint64_t).  The model  *)
(* counts time in milliseconds: every timestamp of the model stands for    *)
(* that many million nanoseconds, and the code's timeouts (280000000 ns,   *)
(* 5000000000 ns) become 280 and 5000.  All the code does with timestamps  *)
(* is compare, add a timeout and subtract, so the comparisons are the      *)
(* code's own on these values.  Timestamps stay far below 2^64 ns, so the  *)
(* code's unsigned additions never wrap.                                   *)
(*                                                                         *)
(* Buffers.  A C buffer with a length field (data[], data_len) is a        *)
(* sequence of its first data_len bytes; the bytes past data_len, which    *)
(* the code never reads, are not kept.                                     *)
(***************************************************************************)
EXTENDS Integers, Sequences, FiniteSets, TLC

VARIABLES
    slots,      \* ida_context_t.slots: the 16 IDA reassembly slots
    ret,        \* return value of the latest ida_reassemble call
    cbs,        \* callback invocations made by the latest call, in order
    last,       \* the burst given to the latest ida_reassemble call
    pending,    \* a burst that has arrived and is not yet reassembled
    op,         \* the operation that ran latest
    ncalls,     \* number of operations run so far
    seq,        \* history of the burst sequence fed so far (SpecSeq)
    dframe,     \* the demod_frame_t given to ida_decode
    dgen,       \* the fields the frame was built from
    djunk,      \* what reads of unwritten stack entries yield in this call
    dburst,     \* the ida_burst_t ida_decode wrote
    dret,       \* return value of ida_decode
    sbd_multi,      \* the 8 SBD multi-packet slots
    acars_json,     \* the output mode: 1 for JSON, 0 for text
    ts_initialized, \* format_timestamp has run once
    first_ts_ns,    \* the timestamp of the first line printed
    sbd_in,     \* the packet given to the latest sbd_extract call
    sbd_dlv,    \* the sbd_process calls the latest sbd_extract call made
    printed,    \* the lines the latest call printed
    sbd_n,      \* number of sbd_extract calls so far
    sseq,       \* history of the packet sequence fed so far (SpecSbdSeq)
    acars_in,   \* the message given to acars_parse (SpecAcars)
    active_calls,   \* the 8 in-progress voice calls
    calls,          \* the ring of 100 completed voice calls
    call_head,      \* next write position of the ring
    call_count,     \* entries in the ring
    total_calls,    \* completed calls so far
    total_frames,   \* VOC frames received so far
    ambe_dec,       \* the AMBE decoder: 1 allocated, 0 NULL
    voice_lock,     \* the holder of the mutex voice_lock, or "free"
    heap,       \* the PCM buffers: those allocated, and the frees made
    call_frames,    \* for each ring entry, the frames of the call it holds
    voc,        \* the latest voice operation and what it was given
    vthr,       \* the positions of the two threads (SpecVoiceThreads)
    running,    \* the flag the capture loops poll
    cap_dev,    \* the SDR backend whose capture thread runs
    cap_pc,     \* the position of the capture thread
    cap_buf,    \* the sample buffer of the current iteration and its fate
    timeouts,   \* bladerf.c: consecutive stream timeouts
    cap_n       \* sample buffers allocated so far

idaVars == <<slots, ret, cbs, last, pending, ncalls, seq>>

decVars == <<dframe, dgen, djunk, dburst, dret>>

sbdVars ==
    <<sbd_multi, acars_json, ts_initialized, first_ts_ns, sbd_in, sbd_dlv,
      printed, sbd_n, sseq, acars_in>>

voiceVars ==
    <<active_calls, calls, call_head, call_count, total_calls, total_frames,
      ambe_dec, voice_lock, heap, call_frames, voc, vthr>>

capVars == <<running, cap_dev, cap_pc, cap_buf, timeouts, cap_n>>

vars == <<idaVars, decVars, sbdVars, voiceVars, capVars, op>>

----------------------------------------------------------------------------
(* Program constants *)

IDA_MAX_REASSEMBLY == 16

IDA_DATA_SIZE == 256

IDA_FREQ_TOL == 260

IDA_TIMEOUT == 280

IDA_CTR_MOD == 8

IDA_PAYLOAD_BYTES == 20

DIR_UPLINK == "UL"

DIR_DOWNLINK == "DL"

DIR_NONE == "NONE"

SBD_MAX_MULTI == 8

SBD_MAX_DATA == 1024

SBD_TIMEOUT == 5000

ACARS_MIN_LEN == 13

MAX_ACTIVE_CALLS == 8

VOICE_MAX_CALLS == 100

VOICE_MAX_FRAMES == 2000

VOICE_CLUSTER_FREQ == 20000

VOICE_CLUSTER_TIME == 20000

VOICE_SAMPLES_PER_SF == 720

VOICE_MIN_FRAMES == 3

VOICE_MIN_DECODED == 4

VOICE_QUALITY_GOOD == "good"

VOICE_QUALITY_FAIR == "fair"

VOICE_QUALITY_POOR == "poor"

----------------------------------------------------------------------------
(* Bounds of the model *)

\* operations per behaviour of Spec
MaxCalls == 3

\* bursts per sequence of SpecSeq
MaxBursts == 14

\* period of the payload-length pattern of a SpecSeq sequence
PatLen == 2

----------------------------------------------------------------------------
(* Helpers *)

Abs(x) ==
    IF x < 0 THEN -x ELSE x

Min(a, b) ==
    IF a < b THEN a ELSE b

SlotIdx == 0 .. (IDA_MAX_REASSEMBLY - 1)

\* 20 payload bytes, distinct by position, starting from a tag
MkPayload(tag) ==
    [i \in 1 .. IDA_PAYLOAD_BYTES |-> (tag + i) % 256]

NoBurst == [none |-> TRUE]

NoFrame == [none |-> TRUE]

NoJunk == [bit |-> 0, llr |-> 0]

\* no frame has been handed to ida_decode
DecIdle ==
    /\ dframe = NoFrame
    /\ dgen = NoFrame
    /\ djunk = NoJunk
    /\ dburst = NoBurst
    /\ dret = 0

EmptySlot ==
    [active |-> FALSE, direction |-> DIR_NONE, frequency |-> 0,
     last_timestamp |-> 0, last_ctr |-> 0, data |-> <<>>, data_len |-> 0]

MultiIdx == 0 .. (SBD_MAX_MULTI - 1)

\* a slot of sbd_multi after the memset of acars_init
EmptyMulti ==
    [active |-> 0, msgno |-> 0, msgcnt |-> 0, ul |-> 0, timestamp |-> 0,
     frequency |-> 0, magnitude |-> 0, data |-> <<>>, data_len |-> 0]

NoPacket == [none |-> TRUE]

NoSbdSeq == [none |-> TRUE]

\* the SBD and ACARS state after acars_init, with no call made
SbdIdle ==
    /\ sbd_multi = [i \in MultiIdx |-> EmptyMulti]
    /\ acars_json = 0
    /\ ts_initialized = 0
    /\ first_ts_ns = 0
    /\ sbd_in = NoPacket
    /\ sbd_dlv = <<>>
    /\ printed = <<>>
    /\ sbd_n = 0
    /\ sseq = NoSbdSeq
    /\ acars_in = NoPacket

ActiveIdx == 0 .. (MAX_ACTIVE_CALLS - 1)

CallIdx == 0 .. (VOICE_MAX_CALLS - 1)

\* an entry of active_calls after the memset of voice_decode_init; frames
\* holds the first n_frames entries of the array
EmptyActive ==
    [active |-> 0, n_frames |-> 0, first_time |-> 0, last_time |-> 0,
     freq_sum |-> 0, frames |-> <<>>]

\* an entry of calls after the memset of voice_decode_init; audio is the
\* number of a PCM buffer, 0 for NULL; frequency is the mean kept as the
\* fraction num / den
EmptyCall ==
    [valid |-> 0, start_time |-> 0, end_time |-> 0,
     frequency |-> [num |-> 0, den |-> 1], n_frames |-> 0,
     quality |-> VOICE_QUALITY_GOOD, audio |-> 0, n_samples |-> 0,
     call_id |-> 0]

\* no PCM buffer was allocated; bufs counts the malloc calls that succeeded,
\* frees records each free: the buffer, whether voice_lock was held and the
\* call_id of the ring entry that pointed to the buffer, -1 when none did;
\* twice is set by a free of a buffer that is not allocated
EmptyHeap ==
    [live |-> {}, bufs |-> 0, frees |-> {}, twice |-> FALSE]

NoVoc == [none |-> TRUE]

\* both threads are outside the voice functions
NoThreads ==
    [demod |-> "idle", query |-> "idle", acc |-> {}, plan |-> NoVoc,
     result |-> NoVoc]

\* the statics of voice_decode.c as the loader leaves them and the tables as
\* voice_decode_init leaves them, before its decoder allocation
VoiceIdle ==
    /\ active_calls = [i \in ActiveIdx |-> EmptyActive]
    /\ calls = [i \in CallIdx |-> EmptyCall]
    /\ call_head = 0
    /\ call_count = 0
    /\ total_calls = 0
    /\ total_frames = 0
    /\ ambe_dec = 0
    /\ voice_lock = "free"
    /\ heap = EmptyHeap
    /\ call_frames = [i \in CallIdx |-> <<>>]
    /\ voc = NoVoc
    /\ vthr = NoThreads

\* no sample buffer allocated yet.  alloc: malloc returned it; held: the thread
\* still has to dispose of it; pushed, freed: calls of push_samples and free
\* on it; seen: the value the read of running before the push returned
NoBuf ==
    [alloc |-> FALSE, held |-> FALSE, pushed |-> 0, freed |-> 0, seen |-> -1]

CapIdle ==
    /\ running = 1
    /\ cap_dev = "none"
    /\ cap_pc = "idle"
    /\ cap_buf = NoBuf
    /\ timeouts = 0
    /\ cap_n = 0

----------------------------------------------------------------------------
(* ida_reassemble: src/ida_decode.c 669-738 *)

\* SlotMatches without the counter test of line 684
SlotMatchesNoCtr(s, burst) ==
    /\ s.active
    /\ s.direction = burst.direction
    /\ ~ (Abs(s.frequency - burst.frequency) > IDA_FREQ_TOL)
    /\ ~ (burst.timestamp < s.last_timestamp)
    /\ ~ (burst.timestamp - s.last_timestamp > IDA_TIMEOUT)

\* SlotMatches without the timeout test of line 683
SlotMatchesNoTimeout(s, burst) ==
    /\ s.active
    /\ s.direction = burst.direction
    /\ ~ (Abs(s.frequency - burst.frequency) > IDA_FREQ_TOL)
    /\ ~ (burst.timestamp < s.last_timestamp)
    /\ ~ ((s.last_ctr + 1) % IDA_CTR_MOD # burst.da_ctr)

\* the five tests of the slot loop (lines 679-684); a slot that fails one is
\* skipped with `continue`
SlotMatches(s, burst) ==
    /\ s.active
    /\ s.direction = burst.direction
    /\ ~ (Abs(s.frequency - burst.frequency) > IDA_FREQ_TOL)
    /\ ~ (burst.timestamp < s.last_timestamp)
    /\ ~ (burst.timestamp - s.last_timestamp > IDA_TIMEOUT)
    /\ ~ ((s.last_ctr + 1) % IDA_CTR_MOD # burst.da_ctr)

\* SlotAppend without the update of last_ctr of line 692
SlotAppendNoCtr(s, burst) ==
    LET fits == s.data_len + burst.da_len <= IDA_DATA_SIZE
        d    == IF fits
                THEN s.data \o SubSeq(burst.payload, 1, burst.da_len)
                ELSE s.data
        n    == IF fits THEN s.data_len + burst.da_len ELSE s.data_len
    IN  [s EXCEPT !.data = d, !.data_len = n,
                  !.last_timestamp = burst.timestamp]

\* SlotAppend that also moves the slot's frequency to the burst's
SlotAppendRetune(s, burst) ==
    LET fits == s.data_len + burst.da_len <= IDA_DATA_SIZE
        d    == IF fits
                THEN s.data \o SubSeq(burst.payload, 1, burst.da_len)
                ELSE s.data
        n    == IF fits THEN s.data_len + burst.da_len ELSE s.data_len
    IN  [s EXCEPT !.data = d, !.data_len = n,
                  !.frequency = burst.frequency,
                  !.last_timestamp = burst.timestamp,
                  !.last_ctr = burst.da_ctr]

\* SlotAppend that appends the leading bytes that still fit
SlotAppendClamp(s, burst) ==
    LET room == IDA_DATA_SIZE - s.data_len
        take == IF burst.da_len <= room THEN burst.da_len ELSE room
    IN  [s EXCEPT !.data = s.data \o SubSeq(burst.payload, 1, take),
                  !.data_len = s.data_len + take,
                  !.last_timestamp = burst.timestamp,
                  !.last_ctr = burst.da_ctr]

\* lines 686-692: append the payload when it fits, record timestamp and ctr
SlotAppend(s, burst) ==
    LET fits == s.data_len + burst.da_len <= IDA_DATA_SIZE
        d    == IF fits
                THEN s.data \o SubSeq(burst.payload, 1, burst.da_len)
                ELSE s.data
        n    == IF fits THEN s.data_len + burst.da_len ELSE s.data_len
    IN  [s EXCEPT !.data = d, !.data_len = n,
                  !.last_timestamp = burst.timestamp,
                  !.last_ctr = burst.da_ctr]

\* PickSlot that takes slot 0 when no slot is free
PickSlotZero(ctx) ==
    IF \E i \in SlotIdx : ~ ctx[i].active
    THEN CHOOSE i \in SlotIdx :
            /\ ~ ctx[i].active
            /\ \A j \in SlotIdx : j < i => ctx[j].active
    ELSE 0

\* lines 714-723: the first inactive slot, else the first slot with the
\* smallest last_timestamp
PickSlot(ctx) ==
    IF \E i \in SlotIdx : ~ ctx[i].active
    THEN CHOOSE i \in SlotIdx :
            /\ ~ ctx[i].active
            /\ \A j \in SlotIdx : j < i => ctx[j].active
    ELSE CHOOSE i \in SlotIdx :
            /\ \A j \in SlotIdx : ctx[i].last_timestamp <= ctx[j].last_timestamp
            /\ \A j \in SlotIdx :
                  j < i => ctx[j].last_timestamp > ctx[i].last_timestamp

\* lines 725-732
SlotOpen(burst) ==
    [active |-> TRUE, direction |-> burst.direction,
     frequency |-> burst.frequency, last_timestamp |-> burst.timestamp,
     last_ctr |-> burst.da_ctr,
     data |-> SubSeq(burst.payload, 1, burst.da_len),
     data_len |-> burst.da_len]

\* one callback invocation: cb(data, len, timestamp, frequency, direction,
\* magnitude, user)
CbRec(data, len, ts, freq, dir, mag) ==
    [data |-> data, len |-> len, timestamp |-> ts, frequency |-> freq,
     direction |-> dir, magnitude |-> mag]

\* lines 686-701: slot i matched; append, and on the last burst of the
\* message (cont = 0) call back with the accumulated bytes and free the slot
MatchStep(ctx, i, burst) ==
    LET s == SlotAppend(ctx[i], burst)
    IN  IF ~ burst.cont
        THEN [ctx |-> [ctx EXCEPT ![i] = [s EXCEPT !.active = FALSE]],
              ret |-> 1,
              cb  |-> << CbRec(s.data, s.data_len, burst.timestamp,
                               s.frequency, s.direction, burst.magnitude) >>]
        ELSE [ctx |-> [ctx EXCEPT ![i] = s], ret |-> 0, cb |-> <<>>]

\* EmitSingle returning 0 after the callback
EmitSingleRet0(ctx, burst) ==
    [ctx |-> ctx, ret |-> 0,
     cb  |-> << CbRec(SubSeq(burst.payload, 1, burst.da_len), burst.da_len,
                      burst.timestamp, burst.frequency, burst.direction,
                      burst.magnitude) >>]

\* EmitSingle handing the callback the whole 20-byte payload buffer
EmitSingleWhole(ctx, burst) ==
    [ctx |-> ctx, ret |-> 1,
     cb  |-> << CbRec(burst.payload, Len(burst.payload),
                      burst.timestamp, burst.frequency, burst.direction,
                      burst.magnitude) >>]

\* lines 704-709: a single-burst message is called back at once
EmitSingle(ctx, burst) ==
    [ctx |-> ctx, ret |-> 1,
     cb  |-> << CbRec(SubSeq(burst.payload, 1, burst.da_len), burst.da_len,
                      burst.timestamp, burst.frequency, burst.direction,
                      burst.magnitude) >>]

\* lines 711-734: the first burst of a multi-burst message takes a slot
OpenSlot(ctx, burst) ==
    [ctx |-> [ctx EXCEPT ![PickSlot(ctx)] = SlotOpen(burst)],
     ret |-> 0, cb |-> <<>>]

\* lines 673-674, 736-737: the burst is dropped
Dropped(ctx) ==
    [ctx |-> ctx, ret |-> 0, cb |-> <<>>]

\* ida_reassemble with the tests for da_ctr = 0 ahead of the slot search
ida_reassembleNewFirst(ctx, burst) ==
    IF ~ burst.crc_ok \/ burst.da_len = 0
    THEN Dropped(ctx)
    ELSE IF burst.da_ctr = 0 /\ ~ burst.cont
    THEN EmitSingle(ctx, burst)
    ELSE IF burst.da_ctr = 0 /\ burst.cont
    THEN OpenSlot(ctx, burst)
    ELSE IF \E i \in SlotIdx : SlotMatches(ctx[i], burst)
    THEN MatchStep(ctx,
                   CHOOSE k \in SlotIdx :
                      /\ SlotMatches(ctx[k], burst)
                      /\ \A j \in SlotIdx : j < k => ~ SlotMatches(ctx[j], burst),
                   burst)
    ELSE Dropped(ctx)

\* the whole function: the new table, the return value and the callbacks made
ida_reassemble(ctx, burst) ==
    IF ~ burst.crc_ok \/ burst.da_len = 0
    THEN Dropped(ctx)
    ELSE IF \E i \in SlotIdx : SlotMatches(ctx[i], burst)
    THEN MatchStep(ctx,
                   CHOOSE k \in SlotIdx :
                      /\ SlotMatches(ctx[k], burst)
                      /\ \A j \in SlotIdx : j < k => ~ SlotMatches(ctx[j], burst),
                   burst)
    ELSE IF burst.da_ctr = 0 /\ ~ burst.cont
    THEN EmitSingle(ctx, burst)
    ELSE IF burst.da_ctr = 0 /\ burst.cont
    THEN OpenSlot(ctx, burst)
    ELSE Dropped(ctx)

\* ida_reassemble_flush with >= in place of > in the test of line 744
ida_reassemble_flush_ge(ctx, now) ==
    [i \in SlotIdx |->
        IF ctx[i].active /\ now >= ctx[i].last_timestamp + IDA_TIMEOUT
        THEN [ctx[i] EXCEPT !.active = FALSE]
        ELSE ctx[i]]

(* ida_reassemble_flush: src/ida_decode.c 740-748 *)
ida_reassemble_flush(ctx, now) ==
    [i \in SlotIdx |->
        IF ctx[i].active /\ now > ctx[i].last_timestamp + IDA_TIMEOUT
        THEN [ctx[i] EXCEPT !.active = FALSE]
        ELSE ctx[i]]

----------------------------------------------------------------------------
(* Bit-level primitives.  A bit string is a sequence of 0/1 values, most   *)
(* significant bit first; the code's uint32_t code words are kept as bit   *)
(* strings of their width, and only table indices and decoded fields are   *)
(* numbers.  bits_to_uint, uint_to_bits and gf2_remainder are declared in  *)
(* frame_decode.h, which is not among the sources; they are modelled from  *)
(* the design: MSB-first packing and polynomial division over GF(2).       *)

\* the function f over 1 .. n as an array value: its entries are computed
\* once, when the array is built
Array(f) ==
    f \o <<>>

RECURSIVE Pow2(_)
Pow2(n) ==
    IF n = 0 THEN 1 ELSE 2 * Pow2(n - 1)

RECURSIVE BitXor(_, _)
\* a ^ b on naturals
BitXor(a, b) ==
    IF a = 0 THEN b
    ELSE IF b = 0 THEN a
    ELSE ((a + b) % 2) + 2 * BitXor(a \div 2, b \div 2)

RECURSIVE bits_to_uint_from(_, _, _)
bits_to_uint_from(bits, n, acc) ==
    IF n = 0 THEN acc
    ELSE bits_to_uint_from(Tail(bits), n - 1, 2 * acc + Head(bits))

\* the first n bits of bits as a number, MSB first
bits_to_uint(bits, n) ==
    bits_to_uint_from(bits, n, 0)

\* the low n bits of val, MSB first
uint_to_bits(val, n) ==
    Array([i \in 1 .. n |-> (val \div Pow2(n - i)) % 2])

RECURSIVE BitLength(_)
BitLength(v) ==
    IF v = 0 THEN 0 ELSE 1 + BitLength(v \div 2)

RECURSIVE GfDiv(_, _)
\* long division of the bit string by the generator pb (leading bit 1):
\* what is left when fewer bits than the generator's remain
GfDiv(pb, bits) ==
    IF Len(bits) < Len(pb) THEN bits
    ELSE IF bits[1] = 1
    THEN GfDiv(pb, Array([i \in 1 .. (Len(bits) - 1) |->
                           IF i + 1 <= Len(pb)
                           THEN (bits[i + 1] + pb[i + 1]) % 2
                           ELSE bits[i + 1]]))
    ELSE GfDiv(pb, Tail(bits))

\* remainder of the code word (a bit string) modulo the generator poly
gf2_remainder(poly, bits) ==
    LET r == GfDiv(uint_to_bits(poly, BitLength(poly)), bits)
    IN  bits_to_uint(r, Len(r))

\* val ^ locator: the bit string with the bits numbered in locator (bit 0 the
\* least significant) flipped
FlipBits(bits, locator) ==
    Array([i \in 1 .. Len(bits) |->
              IF (Len(bits) - i) \in locator THEN 1 - bits[i] ELSE bits[i]])

\* the n-bit word with exactly the bits of locator set
ErrWord(n, locator) ==
    FlipBits([i \in 1 .. n |-> 0], locator)

----------------------------------------------------------------------------
(* Syndrome tables: build_syn and ida_decode_init, src/ida_decode.c 64-102 *)

BCH_POLY_DA == 3545

BCH_DA_SYN == 11

BCH_DA_DATA == 20

BCH_DA_TABLE == 2048

BCH_POLY_LCW1 == 29

BCH_POLY_LCW2 == 465

BCH_POLY_LCW3 == 41

CHASE_FLIP_BITS == 5

\* lines 74-80: the remainder of every one-bit error word
SynSingles(poly, nbits) ==
    [b \in 0 .. (nbits - 1) |-> gf2_remainder(poly, ErrWord(nbits, {b}))]

\* lines 83-86: every two-bit error word <<b1, b2>> with its remainder
SynPairs(poly, nbits) ==
    { <<q[1], q[2], gf2_remainder(poly, ErrWord(nbits, {q[1], q[2]}))>> :
        q \in { t \in (0 .. (nbits - 1)) \X (0 .. (nbits - 1)) : t[1] < t[2] } }

SetMax(S) ==
    CHOOSE x \in S : \A y \in S : y <= x

\* the pair the loops of lines 83-84 reach first
FirstPair(S) ==
    CHOOSE p \in S :
        \A q \in S : p[1] < q[1] \/ (p[1] = q[1] /\ p[2] <= q[2])

\* entry r of the table build_syn fills: the one-bit loop writes every
\* remainder it meets (the last bit with that remainder stays); the two-bit
\* loop writes only entries still empty (the first pair stays)
build_syn(singles, pairs, max_errors, table_size, r) ==
    LET s1 == { b \in DOMAIN singles : singles[b] = r /\ singles[b] < table_size }
        s2 == IF max_errors >= 2
              THEN { p \in pairs : p[3] = r /\ p[3] < table_size }
              ELSE {}
    IN  IF s1 # {} THEN [errs |-> 1, locator |-> {SetMax(s1)}]
        ELSE IF s2 # {}
        THEN [errs |-> 2, locator |-> {FirstPair(s2)[1], FirstPair(s2)[2]}]
        ELSE [errs |-> -1, locator |-> {}]

syn_da_singles == SynSingles(BCH_POLY_DA, 31)

syn_da_pairs == SynPairs(BCH_POLY_DA, 31)

syn_lcw1_singles == SynSingles(BCH_POLY_LCW1, 7)

syn_lcw2_singles == SynSingles(BCH_POLY_LCW2, 14)

syn_lcw3_singles == SynSingles(BCH_POLY_LCW3, 26)

syn_lcw3_pairs == SynPairs(BCH_POLY_LCW3, 26)

\* lines 98-101: the four tables of ida_decode_init
syn_da(r) ==
    build_syn(syn_da_singles, syn_da_pairs, 2, BCH_DA_TABLE, r)

syn_lcw1(r) ==
    build_syn(syn_lcw1_singles, {}, 1, 16, r)

syn_lcw2(r) ==
    build_syn(syn_lcw2_singles, {}, 1, 256, r)

syn_lcw3(r) ==
    build_syn(syn_lcw3_singles, syn_lcw3_pairs, 2, 32, r)

----------------------------------------------------------------------------
(* chase_bch_da: src/ida_decode.c 107-173 *)

\* no LLRs (llr == NULL)
NoLlr == <<>>

BchFail == [ret |-> -1, out_data |-> <<>>, fixed |-> 0]

\* lines 131-144: five rounds of selection sort over the positions 0..30;
\* each round moves the first position of the smallest LLR to the front
RECURSIVE ChaseSelect(_, _, _)
ChaseSelect(pos, llr31, i) ==
    IF i = CHASE_FLIP_BITS THEN pos
    ELSE LET min_idx ==
                CHOOSE j \in i .. 30 :
                    /\ \A k \in i .. 30 :
                          ~ (llr31[pos[k] + 1] < llr31[pos[j] + 1])
                    /\ \A k \in i .. (j - 1) :
                          llr31[pos[j] + 1] < llr31[pos[k] + 1]
         IN  ChaseSelect([pos EXCEPT ![i] = pos[min_idx], ![min_idx] = pos[i]],
                         llr31, i + 1)

\* lines 152-156: the block with the bits of the mask flipped; bit b of the
\* mask flips block position pos[b], which is bit 30 - pos[b] of the word
ChaseFlipped(block31, pos, mask) ==
    FlipBits(block31,
             { 30 - pos[b] : b \in { c \in 0 .. (CHASE_FLIP_BITS - 1) :
                                        (mask \div Pow2(c)) % 2 = 1 } })

\* lines 151-170: the flip patterns mask .. 31 in order; the first whose
\* word has syndrome 0 or a syndrome in the table is returned
RECURSIVE ChaseTry(_, _, _)
ChaseTry(block31, pos, mask) ==
    IF mask >= Pow2(CHASE_FLIP_BITS) THEN BchFail
    ELSE LET flipped  == ChaseFlipped(block31, pos, mask)
             syndrome == gf2_remainder(BCH_POLY_DA, flipped)
         IN  IF syndrome = 0
             THEN [ret |-> 0, out_data |-> SubSeq(flipped, 1, BCH_DA_DATA),
                   fixed |-> 1]
             ELSE IF syndrome < BCH_DA_TABLE /\ syn_da(syndrome).errs >= 0
             THEN [ret |-> syn_da(syndrome).errs,
                   out_data |-> SubSeq(FlipBits(flipped, syn_da(syndrome).locator),
                                       1, BCH_DA_DATA),
                   fixed |-> 1]
             ELSE ChaseTry(block31, pos, mask + 1)

\* lines 131-172
ChaseSearch(block31, llr31) ==
    ChaseTry(block31, ChaseSelect([i \in 0 .. 30 |-> i], llr31, 0), 1)

\* the whole function: ret is the number of table-corrected errors or -1,
\* out_data the 20 data bits (val >> 11), fixed the *fixed flag
chase_bch_da(block31, llr31) ==
    LET syndrome == gf2_remainder(BCH_POLY_DA, block31)
    IN  IF syndrome = 0
        THEN [ret |-> 0, out_data |-> SubSeq(block31, 1, BCH_DA_DATA),
              fixed |-> 0]
        ELSE IF syndrome < BCH_DA_TABLE /\ syn_da(syndrome).errs >= 0
        THEN [ret |-> syn_da(syndrome).errs,
              out_data |-> SubSeq(FlipBits(block31, syn_da(syndrome).locator),
                                  1, BCH_DA_DATA),
              fixed |-> 1]
        ELSE IF llr31 = NoLlr THEN BchFail
        ELSE ChaseSearch(block31, llr31)

----------------------------------------------------------------------------
(* decode_lcw: src/ida_decode.c 193-253 *)

lcw_perm ==
    << 40, 39, 36, 35, 32, 31, 28, 27, 24, 23,
       20, 19, 16, 15, 12, 11,  8,  7,  4,  3,
       41, 38, 37, 34, 33, 30, 29, 26, 25, 22,
       21, 18, 17, 14, 13, 10,  9,  6,  5,  2,
        1, 46, 45, 44, 43, 42 >>

LcwFail ==
    [ok |-> FALSE, ft |-> 0, lcw_ok |-> 0, lcw_ft |-> 0, lcw_code |-> 0,
     lcw3_val |-> 0, ec_lcw |-> 0]

\* lines 202-211: pair swap, then the permutation; data[k] of the code is
\* data[k + 1] here
LcwBits(data) ==
    LET swapped == [k \in 0 .. 45 |->
                       IF k % 2 = 0 THEN data[(k + 1) + 1] ELSE data[(k - 1) + 1]]
    IN  Array([i \in 1 .. 46 |-> swapped[lcw_perm[i] - 1]])

\* lines 215-219, 224-228, 232-236: one component with syndrome s and table
\* entry syn[s]; ok is FALSE when the syndrome is not in the table
LcwComponent(v, s, entry, table_size) ==
    IF s = 0 THEN [ok |-> TRUE, v |-> v, s |-> s]
    ELSE IF s >= table_size \/ entry.errs < 0
    THEN [ok |-> FALSE, v |-> v, s |-> s]
    ELSE [ok |-> TRUE, v |-> FlipBits(v, entry.locator), s |-> s]

decode_lcw(data, data_len) ==
    IF data_len < 46 THEN LcwFail
    ELSE
    LET lcw_bits == LcwBits(data)
        v1 == SubSeq(lcw_bits, 1, 7)
        s1 == gf2_remainder(BCH_POLY_LCW1, v1)
        v2 == SubSeq(lcw_bits, 8, 20) \o <<0>>
        s2 == gf2_remainder(BCH_POLY_LCW2, v2)
        v3 == SubSeq(lcw_bits, 21, 46)
        s3 == gf2_remainder(BCH_POLY_LCW3, v3)
        c1 == LcwComponent(v1, s1, syn_lcw1(s1), 16)
        c2 == LcwComponent(v2, s2, syn_lcw2(s2), 256)
        c3 == LcwComponent(v3, s3, syn_lcw3(s3), 32)
        lcw2_data == bits_to_uint(c2.v, 6)
    IN  IF ~ c1.ok \/ ~ c2.ok \/ ~ c3.ok THEN LcwFail
        ELSE [ok |-> TRUE,
              ft |-> bits_to_uint(c1.v, 3),
              lcw_ok |-> 1,
              lcw_ft |-> (lcw2_data \div 16) % 4,
              lcw_code |-> lcw2_data % 16,
              lcw3_val |-> bits_to_uint(c3.v, 21),
              ec_lcw |-> (IF c1.s # 0 THEN 1 ELSE 0) + (IF c2.s # 0 THEN 1 ELSE 0)
                         + (IF c3.s # 0 THEN 1 ELSE 0)]

----------------------------------------------------------------------------
(* de_interleave_n / de_interleave_llr_n and descramble_payload:
   src/ida_decode.c 176-189, 259-272, 276-377 *)

\* the two loops write 2 * (n_sym / 2) entries to each output; the same
\* permutation serves bits and LLRs
de_interleave_n(in, n_sym) ==
    LET cnt == 2 * (n_sym \div 2)
    IN  [out1 |-> Array([p \in 1 .. cnt |->
                     in[2 * (n_sym - 1 - 2 * ((p - 1) \div 2)) + ((p - 1) % 2) + 1]]),
         out2 |-> Array([p \in 1 .. cnt |->
                     in[2 * (n_sym - 2 - 2 * ((p - 1) \div 2)) + ((p - 1) % 2) + 1]])]

\* line 311
BlockOrder == <<3, 1, 2, 0>>

\* entry i of a stack buffer of which only the first Len(h) entries were
\* written: reading past them yields an indeterminate value
HalfAt(h, i, junk) ==
    IF i < Len(h) THEN h[i + 1] ELSE junk

\* lines 313-328: chunks c .. 3 of one full block
RECURSIVE DescrambleChunks(_, _, _, _, _)
DescrambleChunks(combined, lcombined, max_bch, c, acc) ==
    IF c = 4 \/ Len(acc.bch_stream) + BCH_DA_DATA > max_bch THEN acc
    ELSE LET off == BlockOrder[c + 1] * 31
             r   == chase_bch_da(SubSeq(combined, off + 1, off + 31),
                                 IF lcombined = NoLlr THEN NoLlr
                                 ELSE SubSeq(lcombined, off + 1, off + 31))
         IN  IF r.ret < 0 THEN [acc EXCEPT !.done = TRUE]
             ELSE DescrambleChunks(combined, lcombined, max_bch, c + 1,
                                   [bch_stream |-> acc.bch_stream \o r.out_data,
                                    fixederrs  |-> acc.fixederrs + r.fixed,
                                    done       |-> FALSE])

\* lines 288-329: the full 124-bit blocks; done is the goto of line 323
RECURSIVE DescrambleBlocks(_, _, _, _, _, _)
DescrambleBlocks(data, llr, n_full, max_bch, blk, acc) ==
    IF blk = n_full \/ acc.done THEN acc
    ELSE LET h  == de_interleave_n(SubSeq(data, blk * 124 + 1, blk * 124 + 124), 62)
             lh == de_interleave_n(SubSeq(llr, blk * 124 + 1, blk * 124 + 124), 62)
         IN  DescrambleBlocks(data, llr, n_full, max_bch, blk + 1,
                              DescrambleChunks(h.out1 \o h.out2,
                                               IF llr = NoLlr THEN NoLlr
                                               ELSE lh.out1 \o lh.out2,
                                               max_bch, 0, acc))

\* lines 359-371: the 31-bit words of the last partial block
RECURSIVE DescrambleTail(_, _, _, _, _)
DescrambleTail(combined, lcombined, max_bch, pos, acc) ==
    IF ~ (pos + 31 <= Len(combined) /\ Len(acc.bch_stream) + BCH_DA_DATA <= max_bch)
    THEN acc
    ELSE LET r == chase_bch_da(SubSeq(combined, pos + 1, pos + 31),
                               IF lcombined = NoLlr THEN NoLlr
                               ELSE SubSeq(lcombined, pos + 1, pos + 31))
         IN  IF r.ret < 0 THEN acc
             ELSE DescrambleTail(combined, lcombined, max_bch, pos + 31,
                                 [bch_stream |-> acc.bch_stream \o r.out_data,
                                  fixederrs  |-> acc.fixederrs + r.fixed,
                                  done       |-> FALSE])

\* lines 343-357: h2[1 ..] then h1[1 ..], at most 128 entries
TailCombined(h1, h2, half_len, junk) ==
    Array([k \in 1 .. Min(2 * (half_len - 1), 128) |->
              IF k <= half_len - 1 THEN HalfAt(h2, k, junk)
              ELSE HalfAt(h1, k - (half_len - 1), junk)])

\* lines 332-373: the last partial block; junk.bit and junk.llr are what the
\* reads of the unwritten entries of h1/h2 and lh1/lh2 yield
DescrambleLast(data, llr, data_len, max_bch, junk, acc) ==
    LET n_full     == data_len \div 124
        remain     == data_len % 124
        n_sym_last == remain \div 2
        h  == de_interleave_n(SubSeq(data, n_full * 124 + 1, data_len), n_sym_last)
        lh == de_interleave_n(SubSeq(llr, n_full * 124 + 1, data_len), n_sym_last)
    IN  IF /\ remain >= 4
           /\ Len(acc.bch_stream) + 2 * (remain \div 2 - 1) <= max_bch
           /\ n_sym_last > 1
           /\ Len(acc.bch_stream) + BCH_DA_DATA <= max_bch
        THEN DescrambleTail(TailCombined(h.out1, h.out2, n_sym_last, junk.bit),
                            IF llr = NoLlr THEN NoLlr
                            ELSE TailCombined(lh.out1, lh.out2, n_sym_last, junk.llr),
                            max_bch, 0, acc)
        ELSE acc

\* descramble_payload that goes on to the last partial block after a chunk
\* of a full block failed (no goto at line 323)
descramble_payloadTailAfterFail(data, llr, data_len, max_bch, junk) ==
    LET full == DescrambleBlocks(data, llr, data_len \div 124, max_bch, 0,
                                 [bch_stream |-> <<>>, fixederrs |-> 0,
                                  done |-> FALSE])
        res  == DescrambleLast(data, llr, data_len, max_bch, junk, full)
    IN  [bch_stream |-> res.bch_stream, bch_len |-> Len(res.bch_stream),
         fixederrs |-> res.fixederrs]

\* the whole function: bch_stream holds the bch_len bits written
descramble_payload(data, llr, data_len, max_bch, junk) ==
    LET full == DescrambleBlocks(data, llr, data_len \div 124, max_bch, 0,
                                 [bch_stream |-> <<>>, fixederrs |-> 0,
                                  done |-> FALSE])
        res  == IF full.done THEN full
                ELSE DescrambleLast(data, llr, data_len, max_bch, junk, full)
    IN  [bch_stream |-> res.bch_stream, bch_len |-> Len(res.bch_stream),
         fixederrs |-> res.fixederrs]

----------------------------------------------------------------------------
(* crc_ccitt: src/ida_decode.c 381-394 *)

\* lines 386-391: j shifts of the 16-bit register
RECURSIVE CrcShift(_, _)
CrcShift(crc, j) ==
    IF j = 0 THEN crc
    ELSE CrcShift(IF crc >= 32768 THEN BitXor((crc * 2) % 65536, 4129)
                  ELSE (crc * 2) % 65536,
                  j - 1)

\* lines 384-392: bytes i .. of data into the register (a uint16_t)
RECURSIVE CrcBytes(_, _, _)
CrcBytes(data, i, crc) ==
    IF crc > 65535 \/ i > Len(data) THEN crc
    ELSE CrcBytes(data, i + 1, CrcShift(BitXor(crc, data[i] * 256), 8))

crc_ccitt(data) ==
    CrcBytes(data, 1, 65535)

----------------------------------------------------------------------------
(* ida_decode: src/ida_decode.c 543-665 *)

IDA_MIN_BITS == 24 + 46 + 124

IDA_MIN_BCH == 196

IDA_MAX_DA_LEN == 20

IDA_BCH_BUF == 512

IDA_BCH_KEEP == 256

IDA_CRC_BUF == 64

\* line 545: the burst after memset(burst, 0, sizeof(*burst)); buffers are
\* the sequences of the entries written, the direction is the enum's zero
ZeroLcw ==
    [ok |-> FALSE, ft |-> 0, lcw_ok |-> 0, lcw_ft |-> 0, lcw_code |-> 0,
     lcw3_val |-> 0, ec_lcw |-> 0]

ZeroBurst ==
    [timestamp |-> 0, frequency |-> 0, direction |-> DIR_NONE, magnitude |-> 0,
     noise |-> 0, level |-> 0, confidence |-> 0, n_symbols |-> 0,
     da_ctr |-> 0, da_len |-> 0, cont |-> 0, payload |-> <<>>,
     payload_len |-> 0, crc_ok |-> 0, stored_crc |-> 0, computed_crc |-> 0,
     fixederrs |-> 0, bch_stream |-> <<>>, bch_len |-> 0, lcw |-> ZeroLcw,
     lcw_header |-> ""]

\* lines 405-539: the text is "LCW(ft,T:ty,C:code,remain)"; kept as the
\* values it is formatted from
format_lcw_header(ft, lcw) ==
    <<"LCW", ft,
      CASE lcw.lcw_ft = 0 -> "maint"
        [] lcw.lcw_ft = 1 -> "acchl"
        [] lcw.lcw_ft = 2 -> "hndof"
        [] OTHER -> "rsrvd",
      lcw.lcw_code, lcw.lcw3_val>>

\* lines 554-568: the bits after the 24 access-code bits, the LCW decoded
\* from them and the payload after the 46 LCW bits
FrameData(frame) ==
    SubSeq(frame.bits, 25, frame.n_bits)

FrameLlr(frame) ==
    IF frame.llr = NoLlr THEN NoLlr ELSE SubSeq(frame.llr, 25, frame.n_bits)

FrameLcw(frame) ==
    decode_lcw(FrameData(frame), frame.n_bits - 24)

FramePayload(frame, junk) ==
    LET data_len == frame.n_bits - 24
    IN  descramble_payload(SubSeq(FrameData(frame), 47, data_len),
                           IF frame.llr = NoLlr THEN NoLlr
                           ELSE SubSeq(FrameLlr(frame), 47, data_len),
                           data_len - 46, IDA_BCH_BUF, junk)

\* lines 583-587: the header fields of the BCH stream
IdaCont(bs) == bs[3 + 1]

IdaCtr(bs) == bits_to_uint(SubSeq(bs, 6, 8), 3)

IdaLen(bs) == bits_to_uint(SubSeq(bs, 12, 16), 5)

\* the guard field read as zero whatever its bits
IdaZero1Ignored(bs) == 0

IdaZero1(bs) == bits_to_uint(SubSeq(bs, 18, 20), 3)

\* lines 595-601
IdaPayload(bs) ==
    Array([i \in 1 .. IDA_PAYLOAD_BYTES |->
              bits_to_uint(SubSeq(bs, 20 + (i - 1) * 8 + 1, 20 + i * 8), 8)])

\* lines 614-631: bits 0-19, twelve zero bits, bits 20 .. bch_len - 5, packed
\* into bytes (the last byte padded with zeros)
IdaCrcInput(bs, bch_len) ==
    LET raw  == SubSeq(bs, 1, 20) \o [i \in 1 .. 12 |-> 0]
                \o SubSeq(bs, 21, bch_len - 4)
        n    == (Len(raw) + 7) \div 8
        bits == raw \o [i \in 1 .. (8 * n - Len(raw)) |-> 0]
    IN  Array([i \in 1 .. n |->
                  bits_to_uint(SubSeq(bits, 8 * (i - 1) + 1, 8 * i), 8)])

\* the CRC verified whatever da_len is
IdaCrcAnyLen(bs, bch_len, da_len) ==
    LET computed == crc_ccitt(IdaCrcInput(bs, bch_len))
    IN  [crc_ok |-> IF computed = 0 THEN 1 ELSE 0,
         stored_crc |-> bits_to_uint(SubSeq(bs, 181, 196), 16),
         computed_crc |-> computed]

\* lines 604-634
IdaCrc(bs, bch_len, da_len) ==
    LET crc_bits  == 20 + 12 + (bch_len - 20 - 4)
        crc_bytes == (crc_bits + 7) \div 8
    IN  IF da_len > 0 /\ bch_len >= IDA_MIN_BCH
        THEN IF crc_bytes <= IDA_CRC_BUF
             THEN LET computed == crc_ccitt(IdaCrcInput(bs, bch_len))
                  IN  [crc_ok |-> IF computed = 0 THEN 1 ELSE 0,
                       stored_crc |-> bits_to_uint(SubSeq(bs, 181, 196), 16),
                       computed_crc |-> computed]
             ELSE [crc_ok |-> 0,
                   stored_crc |-> bits_to_uint(SubSeq(bs, 181, 196), 16),
                   computed_crc |-> 0]
        ELSE [crc_ok |-> 0, stored_crc |-> 0, computed_crc |-> 0]

\* lines 637-662
FillBurst(frame, lcw, p) ==
    LET bs     == p.bch_stream
        da_len == IdaLen(bs)
        crc    == IdaCrc(bs, p.bch_len, da_len)
        plen   == IF da_len > 0 THEN da_len ELSE IDA_PAYLOAD_BYTES
    IN  [timestamp |-> frame.timestamp, frequency |-> frame.center_frequency,
         direction |-> frame.direction, magnitude |-> frame.magnitude,
         noise |-> frame.noise, level |-> frame.level,
         confidence |-> frame.confidence,
         n_symbols |-> frame.n_payload_symbols,
         da_ctr |-> IdaCtr(bs), da_len |-> da_len, cont |-> IdaCont(bs),
         payload |-> SubSeq(IdaPayload(bs), 1, plen), payload_len |-> plen,
         crc_ok |-> crc.crc_ok, stored_crc |-> crc.stored_crc,
         computed_crc |-> crc.computed_crc, fixederrs |-> p.fixederrs,
         bch_stream |-> SubSeq(bs, 1, Min(p.bch_len, IDA_BCH_KEEP)),
         bch_len |-> p.bch_len, lcw |-> lcw,
         lcw_header |-> format_lcw_header(lcw.ft, lcw)]

Rejected == [ret |-> 0, burst |-> ZeroBurst]

\* the whole function: ret is the return value, burst the output burst
ida_decode(frame, junk) ==
    IF frame.n_bits < IDA_MIN_BITS THEN Rejected
    ELSE IF frame.direction # DIR_DOWNLINK /\ frame.direction # DIR_UPLINK
    THEN Rejected
    ELSE LET lcw == FrameLcw(frame)
         IN  IF ~ lcw.ok THEN Rejected
             ELSE IF lcw.ft # 2 THEN Rejected
             ELSE IF frame.n_bits - 24 - 46 < 124 THEN Rejected
             ELSE LET p == FramePayload(frame, junk)
                  IN  IF p.bch_len < IDA_MIN_BCH THEN Rejected
                      ELSE IF IdaZero1(p.bch_stream) # 0 THEN Rejected
                      ELSE IF IdaLen(p.bch_stream) > IDA_MAX_DA_LEN THEN Rejected
                      ELSE [ret |-> 1, burst |-> FillBurst(frame, lcw, p)]

----------------------------------------------------------------------------
(* Frames: the inverse of the decoding chain, applied to small sets of fields *)

\* systematic BCH encoding: the data bits followed by the remainder
BchEncode(poly, data, ns) ==
    data \o uint_to_bits(gf2_remainder(poly, data \o [i \in 1 .. ns |-> 0]), ns)

\* inverse of lines 202-211 of decode_lcw
LcwInterleave(lcw_bits) ==
    Array([k \in 1 .. 46 |->
              LET i == CHOOSE j \in 1 .. 46 :
                          (IF (lcw_perm[j] - 1) % 2 = 0 THEN lcw_perm[j]
                           ELSE lcw_perm[j] - 2) = k - 1
              IN  lcw_bits[i]])

\* the 46 LCW bits of frame type ft with lcw2 = lcw3 = 0 and the bits of
\* the set err (positions 1..46 of the de-interleaved word) flipped
EncodeLcw(ft, err) ==
    LET clean == BchEncode(BCH_POLY_LCW1, uint_to_bits(ft, 3), 4)
                 \o SubSeq(BchEncode(BCH_POLY_LCW2, uint_to_bits(0, 6), 8), 1, 13)
                 \o BchEncode(BCH_POLY_LCW3, uint_to_bits(0, 21), 5)
    IN  LcwInterleave(Array([i \in 1 .. 46 |->
                                IF i \in err THEN 1 - clean[i] ELSE clean[i]]))

\* inverse of de_interleave_n over 62 symbols and of the chunk order
\* 3, 1, 2, 0: four 31-entry words in stream order to 124 entries
InterleaveFull(w) ==
    LET combined == w[4] \o w[2] \o w[3] \o w[1]
    IN  Array([k \in 1 .. 124 |->
                  LET s == (k - 1) \div 2
                      b == (k - 1) % 2
                  IN  IF s % 2 = 1 THEN combined[2 * ((61 - s) \div 2) + b + 1]
                      ELSE combined[62 + 2 * ((60 - s) \div 2) + b + 1]])

\* inverse of the last partial block: two words to remain entries; entries
\* the decoder drops or never reads carry pad.  With an odd number of
\* symbols the decoder's second word starts at the unwritten entry of h2,
\* so the frame carries the second word from its second entry on
InterleaveTail(wA, wB, remain, pad) ==
    LET n_sym == remain \div 2
        h2 == <<pad>> \o wA
        h1 == IF n_sym % 2 = 1 THEN <<pad>> \o Tail(wB) ELSE <<pad>> \o wB
        At(h, i) == IF i < Len(h) THEN h[i + 1] ELSE pad
    IN  Array([k \in 1 .. remain |->
                  LET s == (k - 1) \div 2
                      b == (k - 1) % 2
                  IN  IF s >= 1 /\ (n_sym - 1 - s) % 2 = 0
                      THEN At(h1, (n_sym - 1 - s) + b)
                      ELSE IF (n_sym - 2 - s) % 2 = 0 /\ n_sym - 2 - s >= 0
                      THEN At(h2, (n_sym - 2 - s) + b)
                      ELSE pad])

\* the 200-bit IDA stream: 20 header bits, the 20 bytes of payload, CRC, 4
\* zero bits
IdaStreamBytes(cont, da_ctr, da_len, zero1, crc_good, payload) ==
    LET hdr  == <<0, 0, 0, cont, 0>> \o uint_to_bits(da_ctr, 3) \o <<0, 0, 0>>
                \o uint_to_bits(da_len, 5) \o <<0>> \o uint_to_bits(zero1, 3)
        body == Array([k \in 1 .. 160 |->
                    uint_to_bits(payload[((k - 1) \div 8) + 1], 8)[((k - 1) % 8) + 1]])
        raw  == hdr \o [i \in 1 .. 12 |-> 0] \o body
        crc  == crc_ccitt([i \in 1 .. 24 |->
                              bits_to_uint(SubSeq(raw, 8 * (i - 1) + 1, 8 * i), 8)])
    IN  hdr \o body
        \o uint_to_bits(IF crc_good THEN crc ELSE BitXor(crc, 1), 16)
        \o <<0, 0, 0, 0>>

\* the stream whose payload bytes are those of MkPayload(tag)
IdaStream(cont, da_ctr, da_len, zero1, crc_good, tag) ==
    IdaStreamBytes(cont, da_ctr, da_len, zero1, crc_good, MkPayload(tag))

\* the 20 payload bytes of g: those of MkPayload(g.tag), with the bytes from
\* g.da_len on all zero (g.tail = "zero") or zero but for the first of them
\* ("first") or the second ("second")
GenPayload(g) ==
    [i \in 1 .. IDA_PAYLOAD_BYTES |->
        IF i <= g.da_len \/ g.tail = "set" THEN MkPayload(g.tag)[i]
        ELSE IF g.tail = "first" /\ i = g.da_len + 1 THEN MkPayload(g.tag)[i]
        ELSE IF g.tail = "second" /\ i = g.da_len + 2 THEN MkPayload(g.tag)[i]
        ELSE 0]

\* the ten BCH(31,20) code words of the stream of g; the bits of g.blk_err
\* (bit 0 the last) are flipped in the second word
FrameWords(g) ==
    LET st == IdaStreamBytes(g.cont, g.da_ctr, g.da_len, g.zero1, g.crc_good,
                             GenPayload(g))
    IN  Array([k \in 1 .. 10 |->
                  FlipBits(BchEncode(BCH_POLY_DA,
                                     SubSeq(st, BCH_DA_DATA * (k - 1) + 1,
                                            BCH_DA_DATA * k),
                                     BCH_DA_SYN),
                           IF k = 2 THEN g.blk_err ELSE {})])

\* the LLRs of the ten words: 5 everywhere but 1 on the flipped bits
\* (g.llr = "good") or on the first five bits of the second word ("bad")
FrameWordLlrs(g) ==
    LET low == IF g.llr = "good" THEN g.blk_err ELSE 26 .. 30
    IN  Array([k \in 1 .. 10 |->
                  Array([i \in 1 .. 31 |->
                            IF k = 2 /\ (31 - i) \in low THEN 1 ELSE 5])])

\* the payload part of a frame: g.nfull full blocks and a last block of
\* g.remain entries carrying the ten words w, filled up with the word z
FrameLayout(w, z, pad, g) ==
    LET zb == InterleaveFull(<<z, z, z, z>>)
    IN  InterleaveFull(<<w[1], w[2], w[3], w[4]>>)
        \o InterleaveFull(<<w[5], w[6], w[7], w[8]>>)
        \o (IF g.nfull = 2 THEN InterleaveTail(w[9], w[10], g.remain, pad)
            ELSE InterleaveFull(<<w[9], w[10], z, z>>)
                 \o Array([k \in 1 .. (124 * (g.nfull - 3)) |-> zb[((k - 1) % 124) + 1]])
                 \o InterleaveTail(z, z, g.remain, pad))

\* the frame of g: 24 access-code bits, 46 LCW bits and the payload, cut to
\* g.cut bits when g.cut > 0; the words after the tenth are the code word
\* of g.fill
EncodeFrame(g) ==
    LET fill == BchEncode(BCH_POLY_DA, uint_to_bits(g.fill, BCH_DA_DATA),
                          BCH_DA_SYN)
        bits == Array([i \in 1 .. 24 |-> 0]) \o EncodeLcw(g.ft, g.lcw_err)
                \o FrameLayout(FrameWords(g), fill, 0, g)
        llr  == Array([i \in 1 .. 70 |-> 5])
                \o FrameLayout(FrameWordLlrs(g), Array([i \in 1 .. 31 |-> 5]), 5, g)
        n    == IF g.cut > 0 THEN g.cut ELSE Len(bits)
    IN  [timestamp |-> 1000, center_frequency |-> 1626000000,
         direction |-> g.direction, magnitude |-> 10, noise |-> 2, level |-> 3,
         confidence |-> 90, n_payload_symbols |-> (n - 24) \div 2,
         n_bits |-> n, bits |-> SubSeq(bits, 1, n),
         llr |-> IF g.llr = "none" THEN NoLlr ELSE SubSeq(llr, 1, n)]

----------------------------------------------------------------------------
(* CRC-16/Kermit: src/sbd_acars.c 46-72 *)

\* lines 55-60: j shifts of the reflected register, 33800 = 0x8408
RECURSIVE Crc16Shift(_, _)
Crc16Shift(crc, j) ==
    IF j = 0 THEN crc
    ELSE Crc16Shift(IF crc % 2 = 1 THEN BitXor(crc \div 2, 33800)
                    ELSE crc \div 2,
                    j - 1)

\* lines 51-64: crc16_table[i] is entry i + 1
crc16_table ==
    Array([k \in 1 .. 256 |-> Crc16Shift(k - 1, 8)])

\* lines 68-71: bytes i .. of data into the register
RECURSIVE Crc16Bytes(_, _, _)
Crc16Bytes(data, i, crc) ==
    IF crc > 65535 \/ i > Len(data) THEN crc
    ELSE Crc16Bytes(data, i + 1,
                    BitXor(crc16_table[(BitXor(crc, data[i]) % 256) + 1],
                           crc \div 256))

crc16_kermit(data) ==
    Crc16Bytes(data, 1, 0)

----------------------------------------------------------------------------
(* ACARS output and parsing: src/sbd_acars.c 31-44, 126-444.  A printed    *)
(* line is kept as the record of the values it is formatted from; strings  *)
(* are byte sequences, and JSON escaping is not applied.                   *)

\* the C string held in a zero-filled buffer: the bytes before the first 0
RECURSIVE CStr(_)
CStr(b) ==
    IF b = <<>> \/ Head(b) = 0 THEN <<>> ELSE <<Head(b)>> \o CStr(Tail(b))

\* lines 31-44: the first call records its timestamp; the text is the wall
\* clock of that call plus the whole seconds elapsed since.  The difference
\* is unsigned: an earlier timestamp wraps, kept as the flag and the distance
format_timestamp(ts_ns, ts) ==
    LET first == IF ts.initialized = 0 THEN ts_ns ELSE ts.first
    IN  [text |-> IF ts_ns >= first
                  THEN [wrapped |-> FALSE, sec |-> (ts_ns - first) \div 1000]
                  ELSE [wrapped |-> TRUE, sec |-> (first - ts_ns) \div 1000],
         ts   |-> [initialized |-> 1, first |-> first]]

\* lines 137-145, 275-282: bytes 1-7 without the leading dots (46)
AcarsReg(data) ==
    LET reg_start == 1 + Cardinality({ k \in 1 .. 7 :
                                         \A j \in 1 .. k : data[j + 1] = 46 })
    IN  CStr(SubSeq(data, reg_start + 1, 8))

\* lines 164-175, 299-310: the bytes after the twelve header bytes, without
\* a final ETX (3) or ETB (23); ETB marks a continued block
AcarsRest(data) ==
    LET rest == SubSeq(data, 13, Len(data))
        n    == Len(rest)
    IN  IF n > 0 /\ rest[n] = 3
        THEN [cont |-> 0, rest |-> SubSeq(rest, 1, n - 1)]
        ELSE IF n > 0 /\ rest[n] = 23
        THEN [cont |-> 1, rest |-> SubSeq(rest, 1, n - 1)]
        ELSE [cont |-> 0, rest |-> rest]

\* lines 178-200: sequence, flight and text after an STX (2)
AcarsJsonBody(rest, ul) ==
    IF Len(rest) > 0 /\ rest[1] = 2
    THEN IF ul # 0 /\ Len(rest) >= 11
         THEN [seq |-> CStr(SubSeq(rest, 2, 5)),
               flight |-> CStr(SubSeq(rest, 6, 11)),
               text |-> SubSeq(rest, 12, Len(rest))]
         ELSE [seq |-> <<>>, flight |-> <<>>, text |-> SubSeq(rest, 2, Len(rest))]
    ELSE [seq |-> <<>>, flight |-> <<>>, text |-> <<>>]

\* lines 126-259: the JSON object; a field printed only when its string is
\* not empty is the empty sequence when it is left out
acars_output_json(data, ul, text, frequency, magnitude, hdr) ==
    LET r == AcarsRest(data)
        b == AcarsJsonBody(r.rest, ul)
    IN  [fmt |-> "json", timestamp |-> text, errors |-> 0,
         link_direction |-> IF ul # 0 THEN "uplink" ELSE "downlink",
         block_end |-> (r.cont = 0),
         mode |-> CStr(<<data[1]>>),
         tail |-> AcarsReg(data),
         ack |-> IF data[9] = 21 THEN <<33>> ELSE CStr(<<data[9]>>),
         label |-> IF data[10] = 95 /\ data[11] = 127 THEN <<95, 100>>
                   ELSE CStr(<<data[10], data[11]>>),
         block_id |-> CStr(<<data[12]>>),
         message_number |-> b.seq, flight |-> b.flight, text |-> b.text,
         freq |-> frequency, level |-> magnitude, header |-> hdr]

\* lines 327-333, 339-345: a byte outside 0x20 .. 0x7e prints as a dot
AcarsPrintable(bytes) ==
    Array([i \in 1 .. Len(bytes) |->
              IF bytes[i] >= 32 /\ bytes[i] < 127 THEN bytes[i] ELSE 46])

\* lines 322-349
AcarsTextBody(rest, ul) ==
    IF Len(rest) > 0 /\ rest[1] = 2
    THEN IF ul # 0 /\ Len(rest) >= 11
         THEN [seq |-> CStr(SubSeq(rest, 2, 5)),
               fno |-> CStr(SubSeq(rest, 6, 11)),
               text |-> AcarsPrintable(SubSeq(rest, 12, Len(rest)))]
         ELSE [seq |-> <<>>, fno |-> <<>>,
               text |-> AcarsPrintable(SubSeq(rest, 2, Len(rest)))]
    ELSE [seq |-> <<>>, fno |-> <<>>, text |-> <<>>]

\* lines 261-359: the text line; tag is the final " ERRORS"
acars_output_text(data, ul, text, frequency, magnitude, hdr, errors) ==
    LET r == AcarsRest(data)
        b == AcarsTextBody(r.rest, ul)
    IN  [fmt |-> "text", timestamp |-> text,
         dir |-> IF ul # 0 THEN "UL" ELSE "DL",
         mode |-> data[1],
         reg |-> AcarsReg(data),
         nak |-> (data[9] = 21),
         ack |-> data[9],
         label |-> IF data[10] = 95 /\ data[11] = 127 THEN <<95, 63>>
                   ELSE CStr(<<data[10], data[11]>>),
         bid |-> data[12],
         seq |-> b.seq, fno |-> b.fno, text |-> b.text,
         cont |-> (r.cont = 1),
         tag |-> (errors > 0)]

\* lines 373-397: the message without its 0x01 marker, split into the CRC
\* suffix (two bytes before a final 0x7f), the 8-byte header that starts
\* with 0x03, and the body
AcarsSplit(data) ==
    LET d1      == Tail(data)
        n1      == Len(d1)
        has_crc == n1 >= 3 /\ d1[n1] = 127
        d2      == IF has_crc THEN SubSeq(d1, 1, n1 - 3) ELSE d1
        has_hdr == Len(d2) > 0 /\ d2[1] = 3 /\ Len(d2) >= 8
    IN  [has_crc |-> has_crc,
         csum    |-> IF has_crc THEN <<d1[n1 - 2], d1[n1 - 1]>> ELSE <<0, 0>>,
         hdr     |-> IF has_hdr THEN SubSeq(d2, 1, 8) ELSE <<>>,
         body    |-> IF has_hdr THEN SubSeq(d2, 9, Len(d2)) ELSE d2]

\* the CRC check with a message without CRC suffix counted as good
AcarsCrcErrorsNoSuffixOk(has_crc, body, csum) ==
    IF has_crc
    THEN IF Len(body) + 2 <= SBD_MAX_DATA
         THEN IF crc16_kermit(body \o csum) # 0 THEN 1 ELSE 0
         ELSE 0
    ELSE 0

\* the CRC taken over the body without the two CRC bytes
AcarsCrcErrorsBodyOnly(has_crc, body, csum) ==
    IF has_crc
    THEN IF Len(body) + 2 <= SBD_MAX_DATA
         THEN IF crc16_kermit(body) # 0 THEN 1 ELSE 0
         ELSE 0
    ELSE 1

\* lines 400-414
AcarsCrcErrors(has_crc, body, csum) ==
    IF has_crc
    THEN IF Len(body) + 2 <= SBD_MAX_DATA
         THEN IF crc16_kermit(body \o csum) # 0 THEN 1 ELSE 0
         ELSE 0
    ELSE 1

\* lines 423-426: the number of one bits of a byte
RECURSIVE BitCount(_)
BitCount(b) ==
    IF b = 0 THEN 0 ELSE (b % 2) + BitCount(b \div 2)

\* lines 421-430
AcarsParityOk(body) ==
    IF \A i \in 1 .. Len(body) : BitCount(body[i]) % 2 # 0 THEN 1 ELSE 0

AcarsStripped(body) ==
    Array([i \in 1 .. Len(body) |-> body[i] % 128])

\* nothing is printed
AcarsQuiet(ts) ==
    [printed |-> <<>>, ts |-> ts]

\* lines 399-443: the checks and the output of a split message m
AcarsEmit(m, ul, timestamp, frequency, magnitude, json, ts) ==
    LET errors == AcarsCrcErrors(m.has_crc, m.body, m.csum)
                  + (1 - AcarsParityOk(m.body))
        t      == format_timestamp(timestamp, ts)
    IN  IF Len(m.body) < ACARS_MIN_LEN THEN AcarsQuiet(ts)
        ELSE IF json # 0 /\ errors > 0 THEN AcarsQuiet(ts)
        ELSE IF json # 0
        THEN [printed |-> << acars_output_json(AcarsStripped(m.body), ul,
                                               t.text, frequency, magnitude,
                                               m.hdr) >>,
              ts |-> t.ts]
        ELSE [printed |-> << acars_output_text(AcarsStripped(m.body), ul,
                                               t.text, frequency, magnitude,
                                               m.hdr, errors) >>,
              ts |-> t.ts]

\* the whole function: the lines printed and the timestamp state after it;
\* json is acars_json, ts the state of format_timestamp
acars_parse(data, ul, timestamp, frequency, magnitude, json, ts) ==
    IF Len(data) = 0 \/ data[1] # 1 THEN AcarsQuiet(ts)
    ELSE IF Len(data) <= 2 THEN AcarsQuiet(ts)
    ELSE AcarsEmit(AcarsSplit(data), ul, timestamp, frequency, magnitude,
                   json, ts)

----------------------------------------------------------------------------
(* SBD extraction and multi-packet reassembly: src/sbd_acars.c 448-633.    *)
(* A packet is the record of the arguments of sbd_extract; data[k] of the  *)
(* code is data[k + 1] here.                                               *)

\* lines 473-486: the type bytes of an SBD packet (0x76 = 118)
SbdIsSbd(data, ul) ==
    IF data[1] = 118 /\ data[2] # 5
    THEN IF ul # 0 THEN data[2] >= 12 /\ data[2] <= 14
         ELSE data[2] >= 8 /\ data[2] <= 11
    ELSE /\ data[1] = 6
         /\ data[2] = 0
         /\ data[3] \in {0, 16, 32, 64, 80, 112}

\* an early return of the parsing part
SbdNoParse ==
    [ok |-> FALSE, msgno |-> 0, msgcnt |-> 0, sbd_data |-> <<>>]

SbdParsed(msgno, msgcnt, sbd_data) ==
    [ok |-> TRUE, msgno |-> msgno, msgcnt |-> msgcnt, sbd_data |-> sbd_data]

\* lines 501-510: a hello packet; d is the data after the two type bytes
SbdHello(d) ==
    IF Len(d) < 30 \/ d[1] # 32 THEN SbdNoParse
    ELSE SbdParsed(IF d[16] = 0 THEN 0 ELSE 1, d[16], SubSeq(d, 30, Len(d)))

\* lines 513-534: the pre-header of a 76xx packet
SbdPrehdr(typ1, d) ==
    IF typ1 = 8
    THEN IF Len(d) < 5 THEN [ok |-> FALSE, msgcnt |-> 0, d |-> d]
         ELSE LET prehdr_len == IF d[1] = 38 THEN 7
                                ELSE IF d[1] = 32 THEN 5
                                ELSE 7
              IN  IF Len(d) < prehdr_len THEN [ok |-> FALSE, msgcnt |-> 0, d |-> d]
                  ELSE [ok |-> TRUE, msgcnt |-> d[4],
                        d |-> SubSeq(d, prehdr_len + 1, Len(d))]
    ELSE [ok |-> TRUE, msgcnt |-> -1, d |-> d]

\* lines 537-540: the uplink ack/nack marker (0x50, 0x51)
SbdSkipAck(d, ul) ==
    IF ul # 0 /\ Len(d) >= 3 /\ (d[1] = 80 \/ d[1] = 81)
    THEN SubSeq(d, 4, Len(d))
    ELSE d

\* lines 543-564: the data header 0x10 len msgno
SbdHeader(d, msgcnt) ==
    IF Len(d) = 0 THEN SbdParsed(0, msgcnt, d)
    ELSE IF Len(d) > 3 /\ d[1] = 16
    THEN IF Len(d) - 3 < d[2] THEN SbdNoParse
         ELSE SbdParsed(d[3], msgcnt, SubSeq(d, 4, 3 + d[2]))
    ELSE SbdParsed(0, msgcnt, d)

\* lines 469-565: msgno, msgcnt and the SBD bytes of a packet
SbdParse(data, ul) ==
    IF Len(data) < 5 THEN SbdNoParse
    ELSE IF ~ SbdIsSbd(data, ul) THEN SbdNoParse
    ELSE IF data[1] = 6 /\ data[2] = 0
    THEN SbdHello(SubSeq(data, 3, Len(data)))
    ELSE LET pre == SbdPrehdr(data[2], SubSeq(data, 3, Len(data)))
         IN  IF ~ pre.ok THEN SbdNoParse
             ELSE SbdHeader(SbdSkipAck(pre.d, ul), pre.msgcnt)

\* sbd_expire that deactivates nothing
sbd_expireNever(multi, now_ns) ==
    [i \in MultiIdx |-> multi[i]]

\* lines 455-463
sbd_expire(multi, now_ns) ==
    [i \in MultiIdx |->
        IF multi[i].active # 0 /\ now_ns > multi[i].timestamp + SBD_TIMEOUT
        THEN [multi[i] EXCEPT !.active = 0]
        ELSE multi[i]]

\* lines 448-453: one call sbd_process(sbd_data, sbd_len, ul, timestamp,
\* frequency, magnitude)
SbdCall(data, ul, ts, freq, mag) ==
    [data |-> data, len |-> Len(data), ul |-> ul, timestamp |-> ts,
     frequency |-> freq, magnitude |-> mag]

\* SbdStoreIdx that evicts the slot with the largest timestamp
SbdStoreIdxNewest(multi) ==
    IF \E i \in MultiIdx : multi[i].active = 0
    THEN CHOOSE i \in MultiIdx :
            /\ multi[i].active = 0
            /\ \A j \in MultiIdx : j < i => multi[j].active # 0
    ELSE CHOOSE i \in MultiIdx :
            /\ \A j \in MultiIdx : multi[i].timestamp >= multi[j].timestamp
            /\ \A j \in MultiIdx : j < i => multi[j].timestamp < multi[i].timestamp

\* lines 579-593: the first inactive slot, else the first slot with the
\* smallest timestamp
SbdStoreIdx(multi) ==
    IF \E i \in MultiIdx : multi[i].active = 0
    THEN CHOOSE i \in MultiIdx :
            /\ multi[i].active = 0
            /\ \A j \in MultiIdx : j < i => multi[j].active # 0
    ELSE CHOOSE i \in MultiIdx :
            /\ \A j \in MultiIdx : multi[i].timestamp <= multi[j].timestamp
            /\ \A j \in MultiIdx : j < i => multi[j].timestamp > multi[i].timestamp

\* lines 595-604: the packet is stored as the start of a message
SbdStore(multi, p, pkt) ==
    LET n == Min(Len(p.sbd_data), SBD_MAX_DATA)
    IN  [multi |-> [multi EXCEPT ![SbdStoreIdx(multi)] =
                       [active |-> 1, msgno |-> p.msgno, msgcnt |-> p.msgcnt,
                        ul |-> pkt.ul, timestamp |-> pkt.timestamp,
                        frequency |-> pkt.frequency,
                        magnitude |-> pkt.magnitude,
                        data |-> SubSeq(p.sbd_data, 1, n), data_len |-> n]],
         dlv   |-> <<>>]

\* lines 609-611: the slot takes the packet as its next fragment
SbdSlotMatches(s, p, pkt) ==
    /\ s.active # 0
    /\ s.ul = pkt.ul
    /\ p.msgno = s.msgno + 1

\* SbdAppend that copies the whole payload, without the limit of lines 614-615
SbdAppendNoClamp(s, p, pkt) ==
    [s EXCEPT !.data = @ \o p.sbd_data,
              !.data_len = @ + Len(p.sbd_data),
              !.msgno = p.msgno, !.timestamp = pkt.timestamp]

\* lines 614-621: append what fits, record msgno and timestamp
SbdAppend(s, p, pkt) ==
    LET space == SBD_MAX_DATA - s.data_len
        copy  == IF Len(p.sbd_data) > space THEN space ELSE Len(p.sbd_data)
    IN  IF copy > 0
        THEN [s EXCEPT !.data = @ \o SubSeq(p.sbd_data, 1, copy),
                       !.data_len = @ + copy,
                       !.msgno = p.msgno, !.timestamp = pkt.timestamp]
        ELSE [s EXCEPT !.msgno = p.msgno, !.timestamp = pkt.timestamp]

\* lines 607-631: the slots are searched from the last to the first; the
\* message is processed and the slot freed when msgno reaches its msgcnt
SbdContinue(multi, p, pkt) ==
    IF \E i \in MultiIdx : SbdSlotMatches(multi[i], p, pkt)
    THEN LET i == CHOOSE k \in MultiIdx :
                     /\ SbdSlotMatches(multi[k], p, pkt)
                     /\ \A j \in MultiIdx :
                           j > k => ~ SbdSlotMatches(multi[j], p, pkt)
             s == SbdAppend(multi[i], p, pkt)
         IN  IF p.msgno = s.msgcnt
             THEN [multi |-> [multi EXCEPT ![i] = [s EXCEPT !.active = 0]],
                   dlv   |-> << SbdCall(s.data, pkt.ul, pkt.timestamp,
                                        s.frequency, s.magnitude) >>]
             ELSE [multi |-> [multi EXCEPT ![i] = s], dlv |-> <<>>]
    ELSE [multi |-> multi, dlv |-> <<>>]

\* lines 570-632: the four cases, on the table after sbd_expire
SbdDispatch(multi, p, pkt) ==
    IF p.msgno = 0
    THEN [multi |-> multi,
          dlv   |-> IF Len(p.sbd_data) > 0
                    THEN << SbdCall(p.sbd_data, pkt.ul, pkt.timestamp,
                                    pkt.frequency, pkt.magnitude) >>
                    ELSE <<>>]
    ELSE IF p.msgcnt = 1 /\ p.msgno = 1
    THEN [multi |-> multi,
          dlv   |-> << SbdCall(p.sbd_data, pkt.ul, pkt.timestamp,
                               pkt.frequency, pkt.magnitude) >>]
    ELSE IF p.msgcnt > 1 THEN SbdStore(multi, p, pkt)
    ELSE IF p.msgno > 1 THEN SbdContinue(multi, p, pkt)
    ELSE [multi |-> multi, dlv |-> <<>>]

\* the whole function: the table after the call and the sbd_process calls
\* made by it
sbd_extract(multi, pkt) ==
    LET p == SbdParse(pkt.data, pkt.ul)
    IN  IF ~ p.ok THEN [multi |-> multi, dlv |-> <<>>]
        ELSE SbdDispatch(sbd_expire(multi, pkt.timestamp), p, pkt)

\* lines 448-453: sbd_process hands the bytes to acars_parse
sbd_process(dlv, json, ts) ==
    IF dlv = <<>> THEN AcarsQuiet(ts)
    ELSE acars_parse(dlv[1].data, dlv[1].ul, dlv[1].timestamp,
                     dlv[1].frequency, dlv[1].magnitude, json, ts)

----------------------------------------------------------------------------
(* Voice call clustering and the call archive: src/voice_decode.c.  The    *)
(* functions are written over the record v of the statics they change:     *)
(* active (active_calls), calls, head (call_head), count (call_count),     *)
(* total_calls, heap and frames (call_frames).  A VOC frame is the record  *)
(* of its timestamp, its frequency and rv, the value                       *)
(* ir77_ambe_decode_superframe returns for its payload; the codec is not   *)
(* among the sources, rv is an input.  Frequencies are integers in Hz,     *)
(* counted from VoiceBase; the code only adds and subtracts them.  PCM     *)
(* samples are not kept, so the volume normalisation of lines 115-131 has  *)
(* nothing to act on.                                                      *)

\* lines 64-74: ratio = n_frames / (duration_ms / 90.0), compared with 0.8
\* and 0.5
classify_quality(n_frames, duration_ms) ==
    IF duration_ms <= 0 THEN VOICE_QUALITY_POOR
    ELSE IF n_frames * 900 > 8 * duration_ms THEN VOICE_QUALITY_GOOD
    ELSE IF n_frames * 180 > duration_ms THEN VOICE_QUALITY_FAIR
    ELSE VOICE_QUALITY_POOR

\* the sum of the positive rv of the frames a .. b
RECURSIVE VoiceDecodedIn(_, _, _)
VoiceDecodedIn(frames, a, b) ==
    IF a > b THEN 0
    ELSE IF a = b THEN (IF frames[a].rv > 0 THEN frames[a].rv ELSE 0)
    ELSE VoiceDecodedIn(frames, a, (a + b) \div 2)
         + VoiceDecodedIn(frames, (a + b) \div 2 + 1, b)

\* lines 90-103: the sum of the positive rv
VoiceDecodedOk(frames) ==
    VoiceDecodedIn(frames, 1, Len(frames))

\* lines 90-103: 720 samples for each frame with rv > 0
VoiceSamples(frames) ==
    VOICE_SAMPLES_PER_SF
    * Cardinality({ i \in 1 .. Len(frames) : frames[i].rv > 0 })

\* malloc returned a new buffer
HeapAlloc(h) ==
    [h EXCEPT !.bufs = @ + 1, !.live = @ \cup {h.bufs + 1}]

\* free(buf)
HeapFree(h, buf, locked, owner) ==
    [h EXCEPT !.live = @ \ {buf},
              !.frees = @ \cup {[buf |-> buf, locked |-> locked,
                                 owner |-> owner]},
              !.twice = @ \/ buf \notin h.live]

\* lines 173-176
CallReset(call) ==
    [call EXCEPT !.active = 0, !.n_frames = 0, !.freq_sum = 0,
                 !.frames = <<>>]

\* lines 78-113: finalize_call reaches the store into the ring
FinalizeStores(call, malloc_ok) ==
    /\ call.active # 0
    /\ call.n_frames >= VOICE_MIN_FRAMES
    /\ malloc_ok
    /\ VoiceDecodedOk(call.frames) >= VOICE_MIN_DECODED

\* the store without the free of the buffer of the entry that is overwritten
ArchiveStoreNoFree(v, call, audio) ==
    [v EXCEPT
       !.calls[v.head] =
           [valid |-> 1, start_time |-> call.first_time,
            end_time |-> call.last_time,
            frequency |-> [num |-> call.freq_sum, den |-> call.n_frames],
            n_frames |-> call.n_frames,
            quality |-> classify_quality(call.n_frames,
                                         call.last_time - call.first_time),
            audio |-> audio, n_samples |-> VoiceSamples(call.frames),
            call_id |-> v.total_calls],
       !.frames[v.head] = call.frames,
       !.total_calls = @ + 1,
       !.head = (@ + 1) % VOICE_MAX_CALLS,
       !.count = IF @ < VOICE_MAX_CALLS THEN @ + 1 ELSE @]

\* lines 134-159: the section under voice_lock, for the call and its buffer
ArchiveStore(v, call, audio) ==
    LET slot        == v.calls[v.head]
        duration_ms == call.last_time - call.first_time
    IN  [v EXCEPT
           !.heap = IF slot.audio # 0
                    THEN HeapFree(@, slot.audio, TRUE, slot.call_id) ELSE @,
           !.calls[v.head] =
               [valid |-> 1, start_time |-> call.first_time,
                end_time |-> call.last_time,
                frequency |-> [num |-> call.freq_sum, den |-> call.n_frames],
                n_frames |-> call.n_frames,
                quality |-> classify_quality(call.n_frames, duration_ms),
                audio |-> audio, n_samples |-> VoiceSamples(call.frames),
                call_id |-> v.total_calls],
           !.frames[v.head] = call.frames,
           !.total_calls = @ + 1,
           !.head = (@ + 1) % VOICE_MAX_CALLS,
           !.count = IF @ < VOICE_MAX_CALLS THEN @ + 1 ELSE @]

\* the buffer of a call that does not decode is not freed
finalize_callKeepsBuffer(v, i, malloc_ok) ==
    LET call  == v.active[i]
        audio == v.heap.bufs + 1
        reset(w) == [w EXCEPT !.active[i] = CallReset(call)]
    IN  IF call.active = 0 \/ call.n_frames < VOICE_MIN_FRAMES THEN reset(v)
        ELSE IF ~ malloc_ok THEN reset(v)
        ELSE IF VoiceDecodedOk(call.frames) < VOICE_MIN_DECODED
        THEN reset([v EXCEPT !.heap = HeapAlloc(@)])
        ELSE reset(ArchiveStore([v EXCEPT !.heap = HeapAlloc(@)], call,
                                audio))

\* a call with exactly 4 decoded sub-frames is discarded
finalize_callAboveMin(v, i, malloc_ok) ==
    LET call  == v.active[i]
        audio == v.heap.bufs + 1
        reset(w) == [w EXCEPT !.active[i] = CallReset(call)]
    IN  IF call.active = 0 \/ call.n_frames < VOICE_MIN_FRAMES THEN reset(v)
        ELSE IF ~ malloc_ok THEN reset(v)
        ELSE IF VoiceDecodedOk(call.frames) <= VOICE_MIN_DECODED
        THEN reset([v EXCEPT !.heap = HeapFree(HeapAlloc(@), audio,
                                               FALSE, -1)])
        ELSE reset(ArchiveStore([v EXCEPT !.heap = HeapAlloc(@)], call,
                                audio))

\* lines 76-177: finalize_call(&active_calls[i]); malloc_ok is what malloc
\* does when it is called
finalize_call(v, i, malloc_ok) ==
    LET call  == v.active[i]
        audio == v.heap.bufs + 1
        reset(w) == [w EXCEPT !.active[i] = CallReset(call)]
    IN  IF call.active = 0 \/ call.n_frames < VOICE_MIN_FRAMES THEN reset(v)
        ELSE IF ~ malloc_ok THEN reset(v)
        ELSE IF VoiceDecodedOk(call.frames) < VOICE_MIN_DECODED
        THEN reset([v EXCEPT !.heap = HeapFree(HeapAlloc(@), audio,
                                               FALSE, -1)])
        ELSE reset(ArchiveStore([v EXCEPT !.heap = HeapAlloc(@)], call,
                                audio))

\* the frequency test left out
FreqMatchesAny(call, frequency) ==
    /\ call.active # 0
    /\ call.n_frames > 0

\* lines 183-186: the call is active and its mean frequency freq_sum /
\* n_frames is within 20 kHz of frequency.  The quotient of the code is a
\* double; the comparison is made on the exact fraction.  With n_frames = 0
\* the quotient is NaN or infinite and nothing matches
FreqMatches(call, frequency) ==
    /\ call.active # 0
    /\ call.n_frames > 0
    /\ Abs(frequency * call.n_frames - call.freq_sum)
          <= VOICE_CLUSTER_FREQ * call.n_frames

\* lines 180-190: the index of the first matching call, -1 for NULL
find_call(active, frequency) ==
    IF \E i \in ActiveIdx : FreqMatches(active[i], frequency)
    THEN CHOOSE i \in ActiveIdx :
            /\ FreqMatches(active[i], frequency)
            /\ \A j \in ActiveIdx : j < i => ~ FreqMatches(active[j], frequency)
    ELSE -1

\* OldestCall by the time of the last frame
OldestCallLastTime(active) ==
    CHOOSE i \in ActiveIdx :
        /\ \A j \in ActiveIdx : active[i].last_time <= active[j].last_time
        /\ \A j \in ActiveIdx :
              j < i => active[j].last_time > active[i].last_time

\* lines 201-205: the first call with the smallest first_time
OldestCall(active) ==
    CHOOSE i \in ActiveIdx :
        /\ \A j \in ActiveIdx : active[i].first_time <= active[j].first_time
        /\ \A j \in ActiveIdx :
              j < i => active[j].first_time > active[i].first_time

\* lines 193-208: the statics after the call and the index returned
alloc_call(v, malloc_ok) ==
    IF \E i \in ActiveIdx : v.active[i].active = 0
    THEN [v   |-> v,
          idx |-> CHOOSE i \in ActiveIdx :
                     /\ v.active[i].active = 0
                     /\ \A j \in ActiveIdx : j < i => v.active[j].active # 0]
    ELSE [v   |-> finalize_call(v, OldestCall(v.active), malloc_ok),
          idx |-> OldestCall(v.active)]

\* lines 263-264: the difference is unsigned and wraps for a timestamp
\* before last_time
VoiceGapExceeded(call, timestamp) ==
    \/ timestamp < call.last_time
    \/ timestamp - call.last_time > VOICE_CLUSTER_TIME

\* lines 280-288
CallAddFrame(call, frame) ==
    LET c == IF call.n_frames < VOICE_MAX_FRAMES
             THEN [call EXCEPT !.frames = Append(@, frame),
                               !.n_frames = @ + 1]
             ELSE call
    IN  [c EXCEPT !.last_time = frame.timestamp,
                  !.freq_sum = @ + frame.frequency]

\* lines 258-288 of voice_decode_add_frame: the statics after the call, the
\* index of the call the frame went to and whether that call was there before
VoiceAdd(v, frame, malloc_ok) ==
    LET found  == find_call(v.active, frame.frequency)
        late   == found >= 0
                  /\ VoiceGapExceeded(v.active[found], frame.timestamp)
        joined == found >= 0 /\ ~ late
        v1     == IF late THEN finalize_call(v, found, malloc_ok) ELSE v
        al     == alloc_call(v1, malloc_ok)
        idx    == IF joined THEN found ELSE al.idx
        v2     == IF joined THEN v1
                  ELSE [al.v EXCEPT !.active[idx] =
                           [@ EXCEPT !.active = 1, !.n_frames = 0,
                                     !.first_time = frame.timestamp,
                                     !.freq_sum = 0, !.frames = <<>>]]
    IN  [v      |-> [v2 EXCEPT !.active[idx] = CallAddFrame(@, frame)],
         idx    |-> idx,
         joined |-> joined]

\* lines 291-297: voice_decode_flush from call i on; fails holds the indices
\* of the calls for which malloc fails
RECURSIVE VoiceFlushFrom(_, _, _)
VoiceFlushFrom(v, i, fails) ==
    IF i >= MAX_ACTIVE_CALLS \/ v.head < 0 THEN v
    ELSE VoiceFlushFrom(IF v.active[i].active # 0
                        THEN finalize_call(v, i, i \notin fails) ELSE v,
                        i + 1, fails)

voice_decode_flush(v, fails) ==
    VoiceFlushFrom(v, 0, fails)

\* lines 231-238 of voice_decode_shutdown: the buffers of the ring from entry
\* i on are freed under voice_lock
RECURSIVE VoiceFreeFrom(_, _)
VoiceFreeFrom(v, i) ==
    IF i >= VOICE_MAX_CALLS \/ v.head < 0 THEN v
    ELSE VoiceFreeFrom(IF v.calls[i].audio # 0
                       THEN [v EXCEPT
                               !.heap = HeapFree(@, v.calls[i].audio, TRUE,
                                                 v.calls[i].call_id),
                               !.calls[i].audio = 0]
                       ELSE v,
                       i + 1)

\* lines 222-239: the statics after voice_decode_shutdown
voice_decode_shutdown(v, fails) ==
    VoiceFreeFrom(voice_decode_flush(v, fails), 0)

\* lines 309-316
voice_decode_call_count(count) ==
    count

\* index taken as the position in the ring
voice_decode_get_callAtIndex(v, index) ==
    IF index >= 0 /\ index < v.count
    THEN IF v.calls[index].valid # 0 THEN v.calls[index] ELSE NoVoc
    ELSE NoVoc

\* lines 318-333: the ring entry returned, NoVoc for NULL
voice_decode_get_call(v, index) ==
    IF index >= 0 /\ index < v.count
    THEN LET pos == (v.head - v.count + index + VOICE_MAX_CALLS)
                    % VOICE_MAX_CALLS
         IN  IF v.calls[pos].valid # 0 THEN v.calls[pos] ELSE NoVoc
    ELSE NoVoc

\* the statics as the record the functions work on
VoiceState ==
    [active |-> active_calls, calls |-> calls, head |-> call_head,
     count |-> call_count, total_calls |-> total_calls, heap |-> heap,
     frames |-> call_frames]

\* the statics take the values of the record
VoiceSet(v) ==
    /\ active_calls' = v.active
    /\ calls' = v.calls
    /\ call_head' = v.head
    /\ call_count' = v.count
    /\ total_calls' = v.total_calls
    /\ heap' = v.heap
    /\ call_frames' = v.frames

----------------------------------------------------------------------------
(* Inputs of Spec: bursts over small sets of field values *)

BaseFreq == 1626000000

\* (direction, frequency) pairs: frequency differences 260 (within the
\* tolerance), 261 and 521 (outside), and one pair of the other direction
Anchors ==
    { <<DIR_DOWNLINK, BaseFreq>>, <<DIR_DOWNLINK, BaseFreq + 260>>,
      <<DIR_DOWNLINK, BaseFreq + 521>>, <<DIR_UPLINK, BaseFreq>> }

\* differences 280 (within the timeout), 281 and 561 (outside)
Times == {0, 280, 561}

Ctrs == {0, 1, 7}

GoodLen == 7

Magnitude == 10

Burst(ts, f, d, ctr, len, cont, crc, tag) ==
    [timestamp |-> ts, frequency |-> f, direction |-> d, magnitude |-> Magnitude,
     da_ctr |-> ctr, da_len |-> len, cont |-> cont, crc_ok |-> crc,
     payload |-> MkPayload(tag)]

\* CRC-good bursts with a payload
GoodBursts ==
    { Burst(ts, a[2], a[1], ctr, GoodLen, cont, TRUE, 64) :
        ts \in Times, a \in Anchors, ctr \in Ctrs, cont \in BOOLEAN }

\* bursts with a bad CRC, or with no payload
BadBursts ==
    { Burst(280, BaseFreq, DIR_DOWNLINK, ctr, lc[1], cont, lc[2], 64) :
        ctr \in {0, 1}, cont \in BOOLEAN,
        lc \in { <<0, TRUE>>, <<0, FALSE>>, <<GoodLen, FALSE>> } }

Bursts == GoodBursts \cup BadBursts

NoSeq ==
    [n |-> 0, done |-> FALSE, clock |-> 0, lens |-> <<>>, longGap |-> FALSE,
     ctr0AfterGap |-> FALSE, expect |-> <<>>, kept |-> <<>>, fired |-> 0,
     firedData |-> <<>>, firedAtLast |-> FALSE]

Init ==
    /\ slots = [i \in SlotIdx |-> EmptySlot]
    /\ ret = 0
    /\ cbs = <<>>
    /\ last = NoBurst
    /\ pending = NoBurst
    /\ op = "init"
    /\ ncalls = 0
    /\ seq = NoSeq
    /\ DecIdle
    /\ VoiceIdle
    /\ SbdIdle
    /\ CapIdle

\* a call of ida_reassemble(ctx, burst, cb, user)
Reassemble(b) ==
    /\ ncalls < MaxCalls
    /\ LET r == ida_reassemble(slots, b)
       IN  /\ slots' = r.ctx
           /\ ret' = r.ret
           /\ cbs' = r.cb
    /\ last' = b
    /\ op' = "reassemble"
    /\ ncalls' = ncalls + 1
    /\ UNCHANGED <<pending, seq, decVars, sbdVars, voiceVars>>
    /\ UNCHANGED capVars

\* a call of ida_reassemble_flush(ctx, now)
Flush(now) ==
    /\ ncalls < MaxCalls
    /\ slots' = ida_reassemble_flush(slots, now)
    /\ cbs' = <<>>
    /\ op' = "flush"
    /\ ncalls' = ncalls + 1
    /\ UNCHANGED <<ret, last, pending, seq, decVars, sbdVars, voiceVars>>
    /\ UNCHANGED capVars

Next ==
    \/ \E b \in Bursts : Reassemble(b)
    \/ \E now \in Times : Flush(now)

Spec == Init /\ [][Next]_vars

----------------------------------------------------------------------------
(* SpecSeq: one burst sequence of the shape of the reassembly properties,  *)
(* fed in order from an empty table: same direction and frequency,         *)
(* da_ctr = 0, 1, 2, ... (mod 8), cont = 1 on all bursts but the last,     *)
(* timestamps that never decrease.  The caller may call                    *)
(* ida_reassemble_flush(now = the burst's timestamp) before it hands the   *)
(* burst to ida_reassemble.  seq records what was fed and what came back.  *)

SeqLens == {7, 20}

\* gaps between consecutive bursts: the longest within the timeout (280) and
\* the shortest over it (281)
SeqGaps == {280, 281}

SeqInit ==
    /\ slots = [i \in SlotIdx |-> EmptySlot]
    /\ ret = 0
    /\ cbs = <<>>
    /\ last = NoBurst
    /\ pending = NoBurst
    /\ op = "init"
    /\ ncalls = 0
    /\ \E pat \in [1 .. PatLen -> SeqLens] : seq = [NoSeq EXCEPT !.lens = pat]
    /\ DecIdle
    /\ VoiceIdle
    /\ SbdIdle
    /\ CapIdle

\* the next burst of the sequence arrives, gap after the one before it
SeqArrive(gap, isLast) ==
    /\ pending = NoBurst
    /\ ~ seq.done
    /\ seq.n < MaxBursts
    /\ LET ts   == IF seq.n = 0 THEN seq.clock ELSE seq.clock + gap
           ctr  == seq.n % IDA_CTR_MOD
           len  == seq.lens[(seq.n % PatLen) + 1]
           long == seq.longGap \/ (seq.n > 0 /\ gap > IDA_TIMEOUT)
       IN  /\ pending' = Burst(ts, BaseFreq, DIR_DOWNLINK, ctr, len, ~ isLast,
                               TRUE, (seq.n * IDA_PAYLOAD_BYTES) % 256)
           /\ seq' = [seq EXCEPT !.clock = ts, !.longGap = long,
                                 !.ctr0AfterGap = @ \/ (long /\ ctr = 0)]
    /\ op' = "arrive"
    /\ UNCHANGED <<slots, ret, cbs, last, ncalls, decVars, sbdVars, voiceVars>>
    /\ UNCHANGED capVars

\* ida_reassemble_flush(ctx, now = the timestamp of the burst that arrived)
SeqFlush ==
    /\ pending # NoBurst
    /\ op = "arrive"
    /\ slots' = ida_reassemble_flush(slots, pending.timestamp)
    /\ op' = "flush"
    /\ UNCHANGED <<ret, cbs, last, pending, ncalls, seq, decVars, sbdVars, voiceVars>>
    /\ UNCHANGED capVars

\* ida_reassemble(ctx, the burst that arrived, cb, user)
SeqFeed ==
    /\ pending # NoBurst
    /\ LET r     == ida_reassemble(slots, pending)
           bytes == SubSeq(pending.payload, 1, pending.da_len)
       IN  /\ slots' = r.ctx
           /\ ret' = r.ret
           /\ cbs' = r.cb
           /\ seq' = [seq EXCEPT
                        !.n = @ + 1,
                        !.done = ~ pending.cont,
                        !.expect = @ \o bytes,
                        !.kept = IF Len(@) + Len(bytes) <= 256
                                 THEN @ \o bytes ELSE @,
                        !.fired = @ + Len(r.cb),
                        !.firedData = IF Len(r.cb) > 0 THEN r.cb[1].data ELSE @,
                        !.firedAtLast = Len(r.cb) > 0 /\ ~ pending.cont]
    /\ last' = pending
    /\ pending' = NoBurst
    /\ op' = "reassemble"
    /\ UNCHANGED <<ncalls, decVars, sbdVars, voiceVars>>
    /\ UNCHANGED capVars

SeqNext ==
    \/ \E gap \in SeqGaps, isLast \in BOOLEAN : SeqArrive(gap, isLast)
    \/ SeqFlush
    \/ SeqFeed

SpecSeq == SeqInit /\ [][SeqNext]_vars

----------------------------------------------------------------------------
(* SpecDecode: ida_decode applied to one frame.  The frames are built from *)
(* small sets of header fields, LCW and payload bit errors, LLRs, frame    *)
(* lengths and directions.                                                 *)

BaseGen ==
    [ft |-> 2, lcw_err |-> {}, cont |-> 1, da_ctr |-> 0, da_len |-> 5,
     zero1 |-> 0, crc_good |-> TRUE, tag |-> 3, blk_err |-> {}, llr |-> "none",
     nfull |-> 2, remain |-> 64, cut |-> 0, direction |-> DIR_DOWNLINK,
     fill |-> 0, tail |-> "set"]

\* the header fields and the CRC
FieldGens ==
    { [BaseGen EXCEPT !.cont = c, !.da_ctr = n, !.da_len = l, !.zero1 = z,
                      !.crc_good = k] :
        c \in {0, 1}, n \in {0, 5}, l \in {0, 5, 20, 21}, z \in {0, 4},
        k \in BOOLEAN }

\* the frame type and bit errors in the three LCW components
LcwGens ==
    { [BaseGen EXCEPT !.ft = t, !.lcw_err = e, !.da_len = l] :
        t \in {0, 2, 3, 7},
        e \in {{}, {3}, {1, 2}, {10}, {10, 11}, {3, 25}, {25, 30}, {21, 22, 23}},
        l \in {0, 5} }

\* bit errors in a payload code word, with and without LLRs, before an even
\* and an odd last block
BlockGens ==
    { [BaseGen EXCEPT !.blk_err = e, !.llr = q, !.remain = r, !.crc_good = k] :
        e \in {{}, {4}, {4, 9}, {4, 9, 20}, {0, 4, 9, 20}},
        q \in {"none", "good", "bad"}, r \in {64, 66}, k \in BOOLEAN }

\* frame lengths and directions
ShapeGens ==
    { [BaseGen EXCEPT !.nfull = f, !.remain = r, !.cut = x, !.direction = d,
                      !.da_len = l] :
        f \in {2, 3, 7}, r \in {0, 64}, x \in {0, 192, 194},
        d \in {DIR_DOWNLINK, DIR_UPLINK, DIR_NONE}, l \in {0, 5} }

\* streams of 200 bits and longer ones, whose words after the tenth carry
\* the data word fill
StreamGens ==
    { [BaseGen EXCEPT !.nfull = f, !.remain = r, !.fill = z, !.da_len = l,
                      !.da_ctr = n, !.tag = t, !.crc_good = k] :
        f \in {2, 3}, r \in {0, 64}, z \in {0, 1, 524288}, l \in {0, 1, 20},
        n \in {0, 7}, t \in {3, 200}, k \in BOOLEAN }

Gens == FieldGens \cup LcwGens \cup BlockGens \cup ShapeGens \cup StreamGens

\* lines 334-357: the last partial block of n_sym_last symbols leaves the
\* last entry of h1/h2 (and lh1/lh2) unwritten when n_sym_last is odd, and
\* the loops read it; what it holds is whatever the stack held
JunkSet(f) ==
    IF f.n_bits >= IDA_MIN_BITS /\ (((f.n_bits - 24 - 46) % 124) \div 2) % 2 = 1
    THEN { [bit |-> b, llr |-> l] :
             b \in {0, 1}, l \in IF f.llr = NoLlr THEN {0} ELSE {0, 9} }
    ELSE {NoJunk}

DecodeInit ==
    /\ slots = [i \in SlotIdx |-> EmptySlot]
    /\ ret = 0
    /\ cbs = <<>>
    /\ last = NoBurst
    /\ pending = NoBurst
    /\ ncalls = 0
    /\ seq = NoSeq
    /\ op = "frame"
    /\ \E g \in Gens : dgen = g /\ dframe = EncodeFrame(g)
    /\ djunk = NoJunk
    /\ dburst = NoBurst
    /\ dret = 0
    /\ SbdIdle
    /\ VoiceIdle
    /\ CapIdle

\* a call of ida_decode(frame, burst)
Decode ==
    /\ op = "frame"
    /\ \E j \in JunkSet(dframe) :
          \E r \in {ida_decode(dframe, j)} :
              /\ djunk' = j
              /\ dburst' = r.burst
              /\ dret' = r.ret
    /\ op' = "decode"
    /\ UNCHANGED <<dframe, dgen, idaVars, sbdVars, voiceVars>>
    /\ UNCHANGED capVars

DecodeNext ==
    Decode

SpecDecode == DecodeInit /\ [][DecodeNext]_vars

----------------------------------------------------------------------------
(* ACARS messages: the inverse of acars_parse, applied to small sets of    *)
(* choices                                                                 *)

\* mode 2, registration .N12345, NAK, label H1, block id 4, STX, sequence
\* M01A, flight XX1234, text HELLO!; 7-bit bytes
AcarsTemplate ==
    << 50, 46, 78, 49, 50, 51, 52, 53, 21, 72, 49, 52,
       2, 77, 48, 49, 65, 88, 88, 49, 50, 51, 52,
       72, 69, 76, 76, 79, 33 >>

\* the byte with bit 7 set so that the number of one bits is odd
WithParity(c) ==
    IF BitCount(c) % 2 = 0 THEN c + 128 ELSE c

\* the body of g.len bytes: the template cut short and closed by g.end; the
\* second byte has even parity when g.parity is "bad"
AcarsBody(g) ==
    LET raw == SubSeq(AcarsTemplate, 1, g.len - 1) \o <<g.end>>
    IN  Array([i \in 1 .. g.len |->
                  IF g.parity = "bad" /\ i = 2
                  THEN 128 + raw[i] - WithParity(raw[i])
                  ELSE WithParity(raw[i])])

\* the message of g: marker, optional 8-byte header, body and CRC suffix;
\* the CRC bytes are the low and the high byte of the Kermit CRC of the body
AcarsMessage(g) ==
    LET body == AcarsBody(g)
        c    == crc16_kermit(body)
        lo   == IF g.crc = "good" THEN c % 256 ELSE BitXor(c % 256, 1)
    IN  <<g.marker>>
        \o (IF g.hdr THEN <<3, 16, 32, 48, 64, 80, 96, 112>> ELSE <<>>)
        \o body
        \o (IF g.crc = "none" THEN <<>> ELSE <<lo, c \div 256, 127>>)

BaseMsg ==
    [marker |-> 1, hdr |-> FALSE, len |-> 30, end |-> 3, parity |-> "ok",
     crc |-> "good", json |-> 0, ul |-> 0]

\* body lengths around the minimum of 13, parity and CRC failures
ErrorMsgs ==
    { [BaseMsg EXCEPT !.len = l, !.parity = p, !.crc = c, !.json = j, !.ul = u] :
        l \in {5, 12, 13, 14, 30}, p \in {"ok", "bad"},
        c \in {"good", "bad", "none"}, j \in {0, 1}, u \in {0, 1} }

\* markers, headers and final bytes (ETX, ETB, a letter, DEL)
ShapeMsgs ==
    { [BaseMsg EXCEPT !.marker = m, !.hdr = h, !.end = e, !.crc = c, !.json = j] :
        m \in {1, 2}, h \in BOOLEAN, e \in {3, 23, 90, 127},
        c \in {"good", "none"}, j \in {0, 1} }

Msgs == ErrorMsgs \cup ShapeMsgs

----------------------------------------------------------------------------
(* Packets: the inverse of the parsing part of sbd_extract *)

\* n bytes, all equal to tag
SbdBytes(tag, n) ==
    [i \in 1 .. n |-> tag]

\* a downlink data packet 76 08 with the 5-byte pre-header that starts 0x20
DlPacket(msgcnt, msgno, payload) ==
    <<118, 8, 32, 0, 0, msgcnt, 0, 16, Len(payload), msgno>> \o payload

\* the same with the 7-byte pre-header that starts 0x26
DlPacketLong(msgcnt, msgno, payload) ==
    <<118, 8, 38, 0, 0, msgcnt, 0, 0, 0, 16, Len(payload), msgno>> \o payload

\* a downlink data packet 76 09: no pre-header, so no msgcnt
DlNextPacket(msgno, payload) ==
    <<118, 9, 16, Len(payload), msgno>> \o payload

\* an uplink data packet 76 0c with an ack marker; it carries no msgcnt
UlPacket(msgno, payload) ==
    <<118, 12, 80, 0, 0, 16, Len(payload), msgno>> \o payload

\* a hello packet 06 00 20 with the 29-byte pre-header, msgcnt at offset 15
HelloPacket(msgcnt, payload) ==
    <<6, 0, 32>> \o SbdBytes(0, 14) \o <<msgcnt>> \o SbdBytes(0, 13) \o payload

Packet(data, ul, ts) ==
    [data |-> data, ul |-> ul, timestamp |-> ts, frequency |-> BaseFreq,
     magnitude |-> Magnitude]

\* payload bytes of the packets of SpecSbd
SbdLen == 2

\* <<data, ul>>: first packets, continuations with and without a msgcnt,
\* single messages (one of them an ACARS message), short messages, an empty
\* one, a packet that is not SBD and one cut short
SbdPackets ==
    { <<DlPacket(3, 1, SbdBytes(65, SbdLen)), 0>>,
      <<DlPacket(3, 2, SbdBytes(66, SbdLen)), 0>>,
      <<DlPacket(0, 2, SbdBytes(67, SbdLen)), 0>>,
      <<DlPacketLong(0, 3, SbdBytes(68, SbdLen)), 0>>,
      <<DlPacket(1, 2, SbdBytes(69, SbdLen)), 0>>,
      <<DlPacket(1, 1, AcarsMessage(BaseMsg)), 0>>,
      <<HelloPacket(2, SbdBytes(70, SbdLen)), 1>>,
      <<HelloPacket(0, SbdBytes(71, SbdLen)), 0>>,
      <<UlPacket(2, SbdBytes(72, SbdLen)), 1>>,
      <<UlPacket(1, SbdBytes(73, SbdLen)), 1>>,
      <<<<118, 9>> \o SbdBytes(74, 3), 0>>,
      <<<<118, 8, 32, 0, 0, 0, 0>>, 0>>,
      <<<<118, 5, 0, 0, 0>>, 0>>,
      <<<<118, 8, 32, 0, 0, 3, 0, 16, 9, 1, 75>>, 0>> }

\* differences of 5000 (within the timeout) and 5001 (outside)
SbdTimes == {1000, 6000, 6001}

\* sbd_extract calls per behaviour of SpecSbd
MaxSbdCalls == 3

SbdInit ==
    /\ slots = [i \in SlotIdx |-> EmptySlot]
    /\ ret = 0
    /\ cbs = <<>>
    /\ last = NoBurst
    /\ pending = NoBurst
    /\ ncalls = 0
    /\ seq = NoSeq
    /\ op = "init"
    /\ DecIdle
    /\ VoiceIdle
    /\ SbdIdle
    /\ CapIdle

\* a call of sbd_extract(data, len, ul, timestamp, frequency, magnitude)
Extract(data, ul, ts) ==
    /\ sbd_n < MaxSbdCalls
    /\ \E pkt \in {Packet(data, ul, ts)} :
          /\ \E r \in {sbd_extract(sbd_multi, pkt)} :
                \E a \in {sbd_process(r.dlv, acars_json,
                                      [initialized |-> ts_initialized,
                                       first |-> first_ts_ns])} :
                    /\ sbd_multi' = r.multi
                    /\ sbd_dlv' = r.dlv
                    /\ printed' = a.printed
                    /\ ts_initialized' = a.ts.initialized
                    /\ first_ts_ns' = a.ts.first
          /\ sbd_in' = pkt
    /\ sbd_n' = sbd_n + 1
    /\ op' = "extract"
    /\ UNCHANGED <<acars_json, sseq, acars_in, idaVars, decVars, voiceVars>>
    /\ UNCHANGED capVars

SbdNext ==
    \E p \in SbdPackets, ts \in SbdTimes : Extract(p[1], p[2], ts)

SpecSbd == SbdInit /\ [][SbdNext]_vars

----------------------------------------------------------------------------
(* SpecSbdSeq: one complete multi-packet sequence fed in order from the    *)
(* empty table, and fed again when it is complete: a first packet with     *)
(* msgno = 1 and msgcnt = n, then packets with msgno = 2 .. n, the same    *)
(* direction, the same gap between consecutive packets.  sseq records what *)
(* was fed and what was delivered.                                         *)

\* payload bytes per packet of a sequence
SeqShort == 3

SeqLong == 220

\* the times a sequence is fed
MaxPasses == 2

\* gaps of one second and of the full timeout
SbdGaps == {1000, SBD_TIMEOUT}

\* n packets; a downlink sequence of a 76 08 packet and continuations that
\* are 76 09 packets (cmc = -1, no msgcnt) or 76 08 packets that carry
\* msgcnt = cmc, or an uplink sequence of a hello packet and 76 0c packets,
\* which carry no msgcnt
SbdScripts ==
    { [n |-> n, ul |-> 0, cmc |-> c, plen |-> l, gap |-> g] :
        n \in {2, 3, 5}, c \in {-1, 0, 1, 2, 3, 5}, l \in {SeqShort, SeqLong},
        g \in SbdGaps }
    \cup
    { [n |-> n, ul |-> 1, cmc |-> -1, plen |-> l, gap |-> g] :
        n \in {2, 3, 5}, l \in {SeqShort, SeqLong}, g \in SbdGaps }

ScriptPayload(sc, k) ==
    SbdBytes(64 + k, sc.plen)

\* packet k of the sequence
ScriptPacket(sc, k) ==
    IF k = 1
    THEN IF sc.ul = 1 THEN HelloPacket(sc.n, ScriptPayload(sc, 1))
         ELSE DlPacket(sc.n, 1, ScriptPayload(sc, 1))
    ELSE IF sc.ul = 1 THEN UlPacket(k, ScriptPayload(sc, k))
         ELSE IF sc.cmc = -1 THEN DlNextPacket(k, ScriptPayload(sc, k))
         ELSE DlPacket(sc.cmc, k, ScriptPayload(sc, k))

SbdSeqInit ==
    /\ slots = [i \in SlotIdx |-> EmptySlot]
    /\ ret = 0
    /\ cbs = <<>>
    /\ last = NoBurst
    /\ pending = NoBurst
    /\ ncalls = 0
    /\ seq = NoSeq
    /\ op = "init"
    /\ DecIdle
    /\ VoiceIdle
    /\ sbd_multi = [i \in MultiIdx |-> EmptyMulti]
    /\ acars_json = 0
    /\ ts_initialized = 0
    /\ first_ts_ns = 0
    /\ sbd_in = NoPacket
    /\ sbd_dlv = <<>>
    /\ printed = <<>>
    /\ sbd_n = 0
    /\ acars_in = NoPacket
    /\ \E sc \in SbdScripts :
          sseq = [script |-> sc, k |-> 0, pass |-> 1, clock |-> 1000,
                  count |-> 0, msg |-> <<>>, expect |-> <<>>]
    /\ CapIdle

\* sbd_extract on the next packet of the sequence; after the last packet the
\* sequence starts again
SbdSeqFeed ==
    /\ ~ (sseq.k = sseq.script.n /\ sseq.pass = MaxPasses)
    /\ \E again \in {sseq.k = sseq.script.n} :
       \E k \in {IF again THEN 1 ELSE sseq.k + 1} :
       \E ts \in {IF sbd_n = 0 THEN sseq.clock ELSE sseq.clock + sseq.script.gap} :
       \E pkt \in {Packet(ScriptPacket(sseq.script, k), sseq.script.ul, ts)} :
       \E r \in {sbd_extract(sbd_multi, pkt)} :
       \E a \in {sbd_process(r.dlv, acars_json,
                             [initialized |-> ts_initialized,
                              first |-> first_ts_ns])} :
          /\ sbd_multi' = r.multi
          /\ sbd_dlv' = r.dlv
          /\ printed' = a.printed
          /\ ts_initialized' = a.ts.initialized
          /\ first_ts_ns' = a.ts.first
          /\ sbd_in' = pkt
          /\ sseq' = [sseq EXCEPT
                        !.k = k,
                        !.pass = IF again THEN @ + 1 ELSE @,
                        !.clock = ts,
                        !.count = (IF again THEN 0 ELSE @) + Len(r.dlv),
                        !.msg = IF Len(r.dlv) > 0 THEN r.dlv[1].data
                                ELSE IF again THEN <<>> ELSE @,
                        !.expect = (IF again THEN <<>> ELSE @)
                                   \o ScriptPayload(sseq.script, k)]
    /\ sbd_n' = sbd_n + 1
    /\ op' = "extract"
    /\ UNCHANGED <<acars_json, acars_in, idaVars, decVars, voiceVars>>
    /\ UNCHANGED capVars

SbdSeqNext ==
    SbdSeqFeed

SpecSbdSeq == SbdSeqInit /\ [][SbdSeqNext]_vars

----------------------------------------------------------------------------
(* SpecAcars: acars_parse applied to one message, in JSON and in text mode *)

AcarsInit ==
    /\ slots = [i \in SlotIdx |-> EmptySlot]
    /\ ret = 0
    /\ cbs = <<>>
    /\ last = NoBurst
    /\ pending = NoBurst
    /\ ncalls = 0
    /\ seq = NoSeq
    /\ op = "message"
    /\ DecIdle
    /\ VoiceIdle
    /\ sbd_multi = [i \in MultiIdx |-> EmptyMulti]
    /\ ts_initialized = 0
    /\ first_ts_ns = 0
    /\ sbd_in = NoPacket
    /\ sbd_dlv = <<>>
    /\ printed = <<>>
    /\ sbd_n = 0
    /\ sseq = NoSbdSeq
    /\ \E g \in Msgs :
          /\ acars_json = g.json
          /\ acars_in = [gen |-> g, data |-> AcarsMessage(g), ul |-> g.ul,
                         timestamp |-> 1000, frequency |-> BaseFreq,
                         magnitude |-> Magnitude]
    /\ CapIdle

\* a call of acars_parse(data, len, ul, timestamp, frequency, magnitude)
AcarsParse ==
    /\ op = "message"
    /\ \E a \in {acars_parse(acars_in.data, acars_in.ul, acars_in.timestamp,
                             acars_in.frequency, acars_in.magnitude,
                             acars_json,
                             [initialized |-> ts_initialized,
                              first |-> first_ts_ns])} :
          /\ printed' = a.printed
          /\ ts_initialized' = a.ts.initialized
          /\ first_ts_ns' = a.ts.first
    /\ op' = "acars"
    /\ UNCHANGED <<sbd_multi, acars_json, sbd_in, sbd_dlv, sbd_n, sseq,
                   acars_in, idaVars, decVars, voiceVars>>
    /\ UNCHANGED capVars

AcarsNext ==
    AcarsParse

SpecAcars == AcarsInit /\ [][AcarsNext]_vars

----------------------------------------------------------------------------
(* SpecVoice: voice_decode_add_frame, voice_decode_flush and               *)
(* voice_decode_shutdown called one after the other, as the demodulation   *)
(* thread calls them, on frames over small sets of frequencies, timestamps *)
(* and decoder results.  Frequencies are in Hz above 1626000000.           *)

\* 10, 20 and 30 kHz apart, and 100 kHz away
VocFreqs == {0, 10000, 20000, 30000, 100000}

\* 20 s apart, 50 ms apart, and 50 ms more than 20 s apart
VocTimes == {1000, 21000, 21050}

\* both sub-frames of every frame decode
VocRvs == {2}

VocFrame(timestamp, frequency, rv) ==
    [timestamp |-> timestamp, frequency |-> frequency, rv |-> rv]

VocFrames ==
    { VocFrame(t, f, r) : t \in VocTimes, f \in VocFreqs, r \in VocRvs }

\* voice operations per behaviour of SpecVoice
MaxVocOps == 4

\* the calls for which malloc fails in a flush: none, the first, all
FlushFails == { {}, {0}, ActiveIdx }

\* voice_decode_init: the tables are zeroed and the decoder is allocated, or
\* is not
VoiceInit ==
    /\ slots = [i \in SlotIdx |-> EmptySlot]
    /\ ret = 0
    /\ cbs = <<>>
    /\ last = NoBurst
    /\ pending = NoBurst
    /\ ncalls = 0
    /\ seq = NoSeq
    /\ op = "init"
    /\ DecIdle
    /\ SbdIdle
    /\ active_calls = [i \in ActiveIdx |-> EmptyActive]
    /\ calls = [i \in CallIdx |-> EmptyCall]
    /\ call_head = 0
    /\ call_count = 0
    /\ total_calls = 0
    /\ total_frames = 0
    /\ ambe_dec \in {0, 1}
    /\ voice_lock = "free"
    /\ heap = EmptyHeap
    /\ call_frames = [i \in CallIdx |-> <<>>]
    /\ voc = [op |-> "init", n |-> 0]
    /\ vthr = NoThreads
    /\ CapIdle

\* a call of voice_decode_add_frame(voc, timestamp, frequency)
AddFrame(frame, malloc_ok) ==
    /\ \/ /\ ambe_dec = 0
          /\ voc' = [op |-> "add", n |-> voc.n + 1, frame |-> frame,
                     idx |-> -1, joined |-> FALSE]
          /\ UNCHANGED <<active_calls, calls, call_head, call_count,
                         total_calls, total_frames, heap, call_frames>>
       \/ /\ ambe_dec # 0
          /\ \E r \in {VoiceAdd(VoiceState, frame, malloc_ok)} :
                /\ VoiceSet(r.v)
                /\ voc' = [op |-> "add", n |-> voc.n + 1, frame |-> frame,
                           idx |-> r.idx, joined |-> r.joined]
          /\ total_frames' = total_frames + 1
    /\ op' = "voice"
    /\ UNCHANGED <<ambe_dec, voice_lock, vthr, idaVars, decVars, sbdVars>>
    /\ UNCHANGED capVars

\* a call of voice_decode_flush()
VoiceFlush(fails) ==
    /\ \E v \in {voice_decode_flush(VoiceState, fails)} : VoiceSet(v)
    /\ voc' = [op |-> "flush", n |-> voc.n + 1]
    /\ op' = "voice"
    /\ UNCHANGED <<total_frames, ambe_dec, voice_lock, vthr, idaVars,
                   decVars, sbdVars>>
    /\ UNCHANGED capVars

\* a call of voice_decode_shutdown()
VoiceShutdown(fails) ==
    /\ \E v \in {voice_decode_shutdown(VoiceState, fails)} : VoiceSet(v)
    /\ ambe_dec' = 0
    /\ voc' = [op |-> "shutdown", n |-> voc.n + 1]
    /\ op' = "voice"
    /\ UNCHANGED <<total_frames, voice_lock, vthr, idaVars, decVars,
                   sbdVars>>
    /\ UNCHANGED capVars

VoiceNext ==
    /\ voc.n < MaxVocOps
    /\ voc.op # "shutdown"
    /\ \/ \E frame \in VocFrames, malloc_ok \in BOOLEAN :
             AddFrame(frame, malloc_ok)
       \/ \E fails \in FlushFails : VoiceFlush(fails)
       \/ \E fails \in FlushFails : VoiceShutdown(fails)

SpecVoice == VoiceInit /\ [][VoiceNext]_vars

----------------------------------------------------------------------------
(* SpecArchive: calls made one after the other on one frequency.  Call k   *)
(* has its frames 90 ms apart, starting 21 s after call k - 1 started.  It *)
(* is finalized by the first frame of call k + 1, which comes more than    *)
(* 20 s after its last frame, or by voice_decode_flush.  Most calls have   *)
(* three frames that decode; the first calls and the calls from the 100th  *)
(* on may also be too short, fail to decode, or find no memory.            *)

\* the calls of a behaviour of SpecArchive
MaxArchCalls == 103

\* the calls up to this one take any of the kinds
ArchFreeFirst == 2

\* the calls from this one on take any of the kinds
ArchFreeLast == 100

ArchPeriod == 21000

ArchFrameGap == 90

\* a call that is archived
GoodCall == [frames |-> 3, rv |-> 2, malloc_ok |-> TRUE, by |-> "gap"]

ArchKinds(k) ==
    IF k <= ArchFreeFirst \/ k >= ArchFreeLast
    THEN { GoodCall,
           [GoodCall EXCEPT !.frames = 2],
           [GoodCall EXCEPT !.rv = 0],
           [GoodCall EXCEPT !.malloc_ok = FALSE],
           [GoodCall EXCEPT !.by = "flush"] }
    ELSE { GoodCall }

ArchInit ==
    /\ slots = [i \in SlotIdx |-> EmptySlot]
    /\ ret = 0
    /\ cbs = <<>>
    /\ last = NoBurst
    /\ pending = NoBurst
    /\ ncalls = 0
    /\ seq = NoSeq
    /\ op = "init"
    /\ DecIdle
    /\ SbdIdle
    /\ active_calls = [i \in ActiveIdx |-> EmptyActive]
    /\ calls = [i \in CallIdx |-> EmptyCall]
    /\ call_head = 0
    /\ call_count = 0
    /\ total_calls = 0
    /\ total_frames = 0
    /\ ambe_dec = 1
    /\ voice_lock = "free"
    /\ heap = EmptyHeap
    /\ call_frames = [i \in CallIdx |-> <<>>]
    /\ voc = [op |-> "init", k |-> 1, j |-> 0, kind |-> GoodCall,
              prev |-> GoodCall]
    /\ vthr = NoThreads
    /\ CapIdle

\* voice_decode_add_frame on the next frame of call k; malloc does for the
\* call before what that call's kind says
ArchAdd ==
    /\ voc.op \in {"init", "add", "flush"}
    /\ voc.k <= MaxArchCalls
    /\ voc.j < voc.kind.frames
    /\ \E kind \in (IF voc.j = 0 THEN ArchKinds(voc.k) ELSE {voc.kind}) :
       \E frame \in {VocFrame(voc.k * ArchPeriod + voc.j * ArchFrameGap, 0,
                              kind.rv)} :
       \E r \in {VoiceAdd(VoiceState, frame, voc.prev.malloc_ok)} :
          /\ VoiceSet(r.v)
          /\ voc' = IF voc.j + 1 = kind.frames /\ kind.by = "gap"
                    THEN [op |-> "add", k |-> voc.k + 1, j |-> 0,
                          kind |-> GoodCall, prev |-> kind]
                    ELSE [op |-> "add", k |-> voc.k, j |-> voc.j + 1,
                          kind |-> kind, prev |-> voc.prev]
    /\ total_frames' = total_frames + 1
    /\ op' = "voice"
    /\ UNCHANGED <<ambe_dec, voice_lock, vthr, idaVars, decVars, sbdVars>>
    /\ UNCHANGED capVars

\* voice_decode_flush after the last frame of a call that is finalized so
ArchFlush ==
    /\ voc.op = "add"
    /\ voc.j = voc.kind.frames
    /\ \E v \in {voice_decode_flush(VoiceState,
                                    IF voc.kind.malloc_ok THEN {}
                                    ELSE ActiveIdx)} : VoiceSet(v)
    /\ voc' = [op |-> "flush", k |-> voc.k + 1, j |-> 0, kind |-> GoodCall,
               prev |-> GoodCall]
    /\ op' = "voice"
    /\ UNCHANGED <<total_frames, ambe_dec, voice_lock, vthr, idaVars,
                   decVars, sbdVars>>
    /\ UNCHANGED capVars

\* voice_decode_shutdown between two calls
ArchShutdown ==
    /\ voc.op \in {"add", "flush"}
    /\ voc.j = 0
    /\ voc.k <= ArchFreeFirst + 1 \/ voc.k > ArchFreeLast
    /\ \E v \in {voice_decode_shutdown(VoiceState,
                                       IF voc.prev.malloc_ok THEN {}
                                       ELSE ActiveIdx)} : VoiceSet(v)
    /\ ambe_dec' = 0
    /\ voc' = [voc EXCEPT !.op = "shutdown"]
    /\ op' = "voice"
    /\ UNCHANGED <<total_frames, voice_lock, vthr, idaVars, decVars,
                   sbdVars>>
    /\ UNCHANGED capVars

ArchNext ==
    \/ ArchAdd
    \/ ArchFlush
    \/ ArchShutdown

SpecArchive == ArchInit /\ [][ArchNext]_vars

----------------------------------------------------------------------------
(* SpecVoiceThreads: the demodulation thread calls voice_decode_add_frame  *)
(* and voice_decode_flush while a second thread calls the four query       *)
(* functions.  A step is a stretch of one thread's code between two lock   *)
(* operations; vthr.acc records the statics the step read or wrote and     *)
(* whether the thread held voice_lock.  A read that races with a write of  *)
(* the other thread yields the old or the new value.                       *)

\* calls of the demodulation thread per behaviour
MaxDemodCalls == 5

\* calls of the query thread per behaviour
MaxQueries == 2

\* frames on one frequency, the second more than 20 s after the first
ThreadFrames == { VocFrame(1000, 0, 2), VocFrame(21050, 0, 2) }

\* an access of a static by a thread, with the lock as it is
Acc(thread, var, write) ==
    [thread |-> thread, var |-> var, write |-> write,
     locked |-> voice_lock = thread]

\* the ring and the heap take the values of the record, lines 138-159
RingSet(v) ==
    /\ calls' = v.calls
    /\ call_head' = v.head
    /\ call_count' = v.count
    /\ total_calls' = v.total_calls
    /\ heap' = v.heap
    /\ call_frames' = v.frames

ringVars == <<calls, call_head, call_count, total_calls, heap, call_frames>>

\* a step of either thread leaves the other subsystems alone
ThreadStep ==
    /\ op' = "thread"
    /\ UNCHANGED <<idaVars, decVars, sbdVars>>
    /\ UNCHANGED capVars

ThreadInit ==
    /\ slots = [i \in SlotIdx |-> EmptySlot]
    /\ ret = 0
    /\ cbs = <<>>
    /\ last = NoBurst
    /\ pending = NoBurst
    /\ ncalls = 0
    /\ seq = NoSeq
    /\ op = "init"
    /\ DecIdle
    /\ SbdIdle
    /\ active_calls = [i \in ActiveIdx |-> EmptyActive]
    /\ calls = [i \in CallIdx |-> EmptyCall]
    /\ call_head = 0
    /\ call_count = 0
    /\ total_calls = 0
    /\ total_frames = 0
    /\ ambe_dec = 1
    /\ voice_lock = "free"
    /\ heap = EmptyHeap
    /\ call_frames = [i \in CallIdx |-> <<>>]
    /\ voc = [op |-> "init", n |-> 0]
    /\ \E verbose \in {0, 1} :
          vthr = [demod |-> "idle", query |-> "idle", acc |-> {},
                  arg |-> NoVoc, plan |-> NoVoc, fi |-> -1, nd |-> 0,
                  qop |-> NoVoc, result |-> NoVoc, nq |-> 0,
                  verbose |-> verbose]
    /\ CapIdle

\* the demodulation thread enters voice_decode_add_frame, line 244
DCall(frame, malloc_ok) ==
    /\ vthr.demod = "idle"
    /\ ThreadStep
    /\ vthr.nd < MaxDemodCalls
    /\ ambe_dec # 0
    /\ vthr' = [vthr EXCEPT !.demod = "enter", !.nd = @ + 1, !.acc = {},
                            !.arg = [frame |-> frame,
                                     malloc_ok |-> malloc_ok]]
    /\ voc' = [op |-> "add", n |-> voc.n + 1]
    /\ UNCHANGED <<active_calls, ringVars, total_frames, ambe_dec,
                   voice_lock>>

\* lines 246-288 when no call is stored, lines 246-137 when one is
DEnter ==
    /\ vthr.demod = "enter"
    /\ ThreadStep
    /\ total_frames' = total_frames + 1
    /\ \E r \in {VoiceAdd(VoiceState, vthr.arg.frame, vthr.arg.malloc_ok)} :
          IF r.v.total_calls = total_calls
          THEN /\ VoiceSet(r.v)
               /\ vthr' = [vthr EXCEPT
                             !.demod = "idle",
                             !.acc = {Acc("demod", "total_frames", TRUE),
                                      Acc("demod", "active_calls", TRUE)}]
          ELSE /\ vthr' = [vthr EXCEPT
                             !.demod = "lock", !.plan = r.v,
                             !.acc = {Acc("demod", "total_frames", TRUE),
                                      Acc("demod", "active_calls", FALSE)}]
               /\ UNCHANGED <<active_calls, ringVars>>
    /\ UNCHANGED <<ambe_dec, voice_lock, voc>>

\* the demodulation thread enters voice_decode_flush
DFlushCall(fails) ==
    /\ vthr.demod = "idle"
    /\ ThreadStep
    /\ vthr.nd < MaxDemodCalls
    /\ vthr' = [vthr EXCEPT !.demod = "flush", !.nd = @ + 1, !.acc = {},
                            !.fi = 0, !.arg = [fails |-> fails]]
    /\ voc' = [op |-> "flush", n |-> voc.n + 1]
    /\ UNCHANGED <<active_calls, ringVars, total_frames, ambe_dec,
                   voice_lock>>

\* lines 293-296 for call fi: finalize_call to its end when the call is not
\* stored, to line 137 when it is
DFlushStep ==
    /\ vthr.demod = "flush"
    /\ ThreadStep
    /\ IF vthr.fi >= MAX_ACTIVE_CALLS
       THEN /\ vthr' = [vthr EXCEPT !.demod = "idle", !.fi = -1, !.acc = {}]
            /\ UNCHANGED <<active_calls, ringVars>>
       ELSE \E w \in {IF active_calls[vthr.fi].active # 0
                      THEN finalize_call(VoiceState, vthr.fi,
                                         vthr.fi \notin vthr.arg.fails)
                      ELSE VoiceState} :
               IF w.total_calls = total_calls
               THEN /\ VoiceSet(w)
                    /\ vthr' = [vthr EXCEPT
                                  !.fi = @ + 1,
                                  !.acc = {Acc("demod", "active_calls",
                                               TRUE)}]
               ELSE /\ vthr' = [vthr EXCEPT
                                  !.demod = "lock", !.plan = w,
                                  !.acc = {Acc("demod", "active_calls",
                                               FALSE)}]
                    /\ UNCHANGED <<active_calls, ringVars>>
    /\ UNCHANGED <<total_frames, ambe_dec, voice_lock, voc>>

\* line 138
DLock ==
    /\ vthr.demod = "lock"
    /\ ThreadStep
    /\ voice_lock = "free"
    /\ voice_lock' = "demod"
    /\ vthr' = [vthr EXCEPT !.demod = "store", !.acc = {}]
    /\ UNCHANGED <<active_calls, ringVars, total_frames, ambe_dec, voc>>

\* lines 141-159
DStore ==
    /\ vthr.demod = "store"
    /\ ThreadStep
    /\ RingSet(vthr.plan)
    /\ vthr' = [vthr EXCEPT
                  !.demod = "unlock",
                  !.acc = {Acc("demod", "calls", TRUE),
                           Acc("demod", "call_head", TRUE),
                           Acc("demod", "call_count", TRUE),
                           Acc("demod", "total_calls", TRUE)}]
    /\ UNCHANGED <<active_calls, total_frames, ambe_dec, voice_lock, voc>>

\* line 161
DUnlock ==
    /\ vthr.demod = "unlock"
    /\ ThreadStep
    /\ voice_lock' = "free"
    /\ vthr' = [vthr EXCEPT !.demod = "finish", !.acc = {}]
    /\ UNCHANGED <<active_calls, ringVars, total_frames, ambe_dec, voc>>

\* lines 163-176, where verbose reads the ring entry, and the rest of the
\* function that called finalize_call
DFinish ==
    /\ vthr.demod = "finish"
    /\ ThreadStep
    /\ active_calls' = vthr.plan.active
    /\ vthr' = [vthr EXCEPT
                  !.demod = IF vthr.fi >= 0 THEN "flush" ELSE "idle",
                  !.fi = IF vthr.fi >= 0 THEN @ + 1 ELSE @,
                  !.plan = NoVoc,
                  !.acc = {Acc("demod", "active_calls", TRUE)}
                          \cup (IF vthr.verbose # 0
                                THEN {Acc("demod", "calls", FALSE)}
                                ELSE {})]
    /\ UNCHANGED <<ringVars, total_frames, ambe_dec, voice_lock, voc>>

\* lines 299-307: voice_decode_total_calls and voice_decode_total_frames
QTotal(fn) ==
    /\ vthr.query = "idle"
    /\ ThreadStep
    /\ vthr.nq < MaxQueries
    /\ \E value \in (IF fn = "total_calls"
                     THEN {total_calls}
                          \cup (IF vthr.demod = "store"
                                THEN {total_calls + 1} ELSE {})
                     ELSE {total_frames}
                          \cup (IF vthr.demod = "enter"
                                THEN {total_frames + 1} ELSE {})) :
          vthr' = [vthr EXCEPT !.nq = @ + 1,
                               !.qop = [fn |-> fn, index |-> 0],
                               !.result = value,
                               !.acc = {Acc("query", fn, FALSE)}]
    /\ UNCHANGED <<active_calls, ringVars, total_frames, ambe_dec,
                   voice_lock, voc>>

\* the query thread enters voice_decode_call_count or voice_decode_get_call
QCall(fn, index) ==
    /\ vthr.query = "idle"
    /\ ThreadStep
    /\ vthr.nq < MaxQueries
    /\ vthr' = [vthr EXCEPT !.query = "lock", !.nq = @ + 1, !.acc = {},
                            !.qop = [fn |-> fn, index |-> index]]
    /\ UNCHANGED <<active_calls, ringVars, total_frames, ambe_dec,
                   voice_lock, voc>>

\* lines 312, 321
QLock ==
    /\ vthr.query = "lock"
    /\ ThreadStep
    /\ voice_lock = "free"
    /\ voice_lock' = "query"
    /\ vthr' = [vthr EXCEPT !.query = "read", !.acc = {}]
    /\ UNCHANGED <<active_calls, ringVars, total_frames, ambe_dec, voc>>

\* lines 313, 323-329
QRead ==
    /\ vthr.query = "read"
    /\ ThreadStep
    /\ vthr' = [vthr EXCEPT
                  !.query = "unlock",
                  !.result = IF vthr.qop.fn = "call_count"
                             THEN voice_decode_call_count(call_count)
                             ELSE voice_decode_get_call(VoiceState,
                                                        vthr.qop.index),
                  !.acc = IF vthr.qop.fn = "call_count"
                          THEN {Acc("query", "call_count", FALSE)}
                          ELSE {Acc("query", "call_count", FALSE),
                                Acc("query", "call_head", FALSE),
                                Acc("query", "calls", FALSE)}]
    /\ UNCHANGED <<active_calls, ringVars, total_frames, ambe_dec,
                   voice_lock, voc>>

\* lines 314, 331
QUnlock ==
    /\ vthr.query = "unlock"
    /\ ThreadStep
    /\ voice_lock' = "free"
    /\ vthr' = [vthr EXCEPT !.query = "idle", !.acc = {}]
    /\ UNCHANGED <<active_calls, ringVars, total_frames, ambe_dec, voc>>

ThreadNext ==
    \/ \E frame \in ThreadFrames, malloc_ok \in BOOLEAN :
          DCall(frame, malloc_ok)
    \/ DEnter
    \/ DFlushCall({})
    \/ DFlushStep
    \/ DLock
    \/ DStore
    \/ DUnlock
    \/ DFinish
    \/ \E fn \in {"total_calls", "total_frames"} : QTotal(fn)
    \/ \E fn \in {"call_count", "get_call"}, index \in {0, 1} :
          QCall(fn, index)
    \/ QLock
    \/ QRead
    \/ QUnlock

SpecVoiceThreads == ThreadInit /\ [][ThreadNext]_vars

----------------------------------------------------------------------------
(* SpecSlots: the reassembly table is filled from empty by bursts that     *)
(* open a message (da_ctr = 0, cont = 1), each on a frequency of its own,  *)
(* until more messages were opened than the table has slots.  Between the  *)
(* opening bursts a message may be continued or completed and the table    *)
(* may be flushed, so that the table has holes and the slots differ in     *)
(* their last_timestamp.  pending keeps the table as it was before the     *)
(* call.                                                                   *)

\* opening bursts per behaviour
MaxOpens == 19

\* continuation bursts and flushes per behaviour
MaxExtras == 2

\* spacing of the frequencies of the opened messages, Hz
SlotFreqStep == 1000

\* the opening bursts (by number) whose timestamp varies
FreeOpens == {0, 5, 15, 16}

OpenTimes(k) == IF k \in FreeOpens THEN {100, 200, 300} ELSE {200}

\* the slots a continuation burst is sent for
ContSlots == {0, 3, 15}

\* the time handed to ida_reassemble_flush: slots last touched at 100 expire
SlotFlushTimes == {381}

SlotsInit ==
    /\ slots = [i \in SlotIdx |-> EmptySlot]
    /\ ret = 0
    /\ cbs = <<>>
    /\ last = NoBurst
    /\ pending = [table |-> [i \in SlotIdx |-> EmptySlot]]
    /\ op = "init"
    /\ ncalls = 0
    /\ seq = [opens |-> 0, extras |-> 0]
    /\ DecIdle
    /\ VoiceIdle
    /\ SbdIdle
    /\ CapIdle

\* ida_reassemble with a burst that opens a message; one burst in four has
\* a bad CRC or no payload
SlotsOpen(ts, len, crc) ==
    /\ seq.opens < MaxOpens
    /\ \E b \in {Burst(ts, BaseFreq + SlotFreqStep * seq.opens, DIR_DOWNLINK,
                       0, len, TRUE, crc, seq.opens)} :
          /\ \E r \in {ida_reassemble(slots, b)} :
                /\ slots' = r.ctx
                /\ ret' = r.ret
                /\ cbs' = r.cb
          /\ last' = b
    /\ pending' = [table |-> slots]
    /\ seq' = [seq EXCEPT !.opens = @ + 1]
    /\ ncalls' = ncalls + 1
    /\ op' = "open"
    /\ UNCHANGED <<decVars, sbdVars, voiceVars>>
    /\ UNCHANGED capVars

\* ida_reassemble with the next burst of the message in slot i, 50 ms after
\* the burst before it
SlotsContinue(i, cont) ==
    /\ seq.extras < MaxExtras
    /\ slots[i].active
    /\ \E b \in {Burst(slots[i].last_timestamp + 50, slots[i].frequency,
                       slots[i].direction,
                       (slots[i].last_ctr + 1) % IDA_CTR_MOD, GoodLen, cont,
                       TRUE, 128)} :
          /\ \E r \in {ida_reassemble(slots, b)} :
                /\ slots' = r.ctx
                /\ ret' = r.ret
                /\ cbs' = r.cb
          /\ last' = b
    /\ pending' = [table |-> slots]
    /\ seq' = [seq EXCEPT !.extras = @ + 1]
    /\ ncalls' = ncalls + 1
    /\ op' = "continue"
    /\ UNCHANGED <<decVars, sbdVars, voiceVars>>
    /\ UNCHANGED capVars

\* ida_reassemble_flush(ctx, now)
SlotsFlush(now) ==
    /\ seq.extras < MaxExtras
    /\ slots' = ida_reassemble_flush(slots, now)
    /\ cbs' = <<>>
    /\ pending' = [table |-> slots]
    /\ seq' = [seq EXCEPT !.extras = @ + 1]
    /\ ncalls' = ncalls + 1
    /\ op' = "flush"
    /\ UNCHANGED <<ret, last, decVars, sbdVars, voiceVars>>
    /\ UNCHANGED capVars

SlotsNext ==
    \/ \E ts \in OpenTimes(seq.opens) : SlotsOpen(ts, GoodLen, TRUE)
    \/ \E lc \in { <<0, FALSE>>, <<GoodLen, FALSE>> } :
          /\ seq.opens \in FreeOpens
          /\ SlotsOpen(200, lc[1], lc[2])
    \/ \E i \in ContSlots, cont \in BOOLEAN : SlotsContinue(i, cont)
    \/ \E now \in SlotFlushTimes : SlotsFlush(now)

SpecSlots == SlotsInit /\ [][SlotsNext]_vars

----------------------------------------------------------------------------
(* SpecChase: descramble_payload applied twice to the payload part of one  *)
(* frame, once with the LLRs of the frame and once with llr = NULL.  The   *)
(* payload carries the ten code words of an IDA stream in two full blocks  *)
(* and a last partial block; bit errors sit in one word of a full block or *)
(* in the last word of the partial block.  dframe is the payload, dburst   *)
(* the two results, djunk what each call read from the unwritten entries.  *)

\* the words that carry the bit errors: the second of the first full block,
\* the second of the last partial block
ChaseWordIdx == {2, 10}

\* bit errors of the word (bit 0 the last)
ChaseErrs == { {}, {4}, {4, 9}, {4, 9, 20}, {0, 4, 9, 20}, {4, 9, 20, 25} }

\* LLR patterns: low on the flipped bits, on the first five bits, or on
\* five bits that are right
ChaseLlrs == {"good", "bad", "far"}

\* entries of the last partial block: 32 symbols, 33 symbols
ChaseRemains == {64, 66}

ChaseGens ==
    { [gen  |-> [BaseGen EXCEPT !.blk_err = e, !.llr = q, !.remain = r],
       word |-> k] :
        e \in ChaseErrs, q \in ChaseLlrs, r \in ChaseRemains,
        k \in ChaseWordIdx }

\* the ten code words with the bits of c.gen.blk_err flipped in word c.word
ChaseWords(c) ==
    LET g  == c.gen
        st == IdaStream(g.cont, g.da_ctr, g.da_len, g.zero1, g.crc_good, g.tag)
    IN  Array([k \in 1 .. 10 |->
                  FlipBits(BchEncode(BCH_POLY_DA,
                                     SubSeq(st, BCH_DA_DATA * (k - 1) + 1,
                                            BCH_DA_DATA * k),
                                     BCH_DA_SYN),
                           IF k = c.word THEN g.blk_err ELSE {})])

\* the LLRs of the ten words: 5 everywhere but 1 on the chosen bits of word
\* c.word
ChaseWordLlrs(c) ==
    LET low == IF c.gen.llr = "good" THEN c.gen.blk_err
               ELSE IF c.gen.llr = "bad" THEN 26 .. 30
               ELSE 10 .. 14
    IN  Array([k \in 1 .. 10 |->
                  Array([i \in 1 .. 31 |->
                            IF k = c.word /\ (31 - i) \in low THEN 1 ELSE 5])])

\* the arguments data, llr and data_len of descramble_payload
ChasePayload(c) ==
    LET data == FrameLayout(ChaseWords(c), Array([i \in 1 .. 31 |-> 0]), 0,
                            c.gen)
    IN  [data |-> data,
         llr |-> FrameLayout(ChaseWordLlrs(c), Array([i \in 1 .. 31 |-> 5]), 5,
                             c.gen),
         data_len |-> Len(data)]

\* lines 334-357: what a call reads from the entries of h1/h2 (and lh1/lh2)
\* that de_interleave_n left unwritten, when the last block has an odd
\* number of symbols
ChaseJunk(p, with_llr) ==
    IF ((p.data_len % 124) \div 2) % 2 = 1
    THEN { [bit |-> b, llr |-> l] :
             b \in {0, 1}, l \in IF with_llr THEN {0, 9} ELSE {0} }
    ELSE {NoJunk}

ChaseInit ==
    /\ slots = [i \in SlotIdx |-> EmptySlot]
    /\ ret = 0
    /\ cbs = <<>>
    /\ last = NoBurst
    /\ pending = NoBurst
    /\ ncalls = 0
    /\ seq = NoSeq
    /\ op = "payload"
    /\ \E c \in ChaseGens : dgen = c /\ dframe = ChasePayload(c)
    /\ djunk = NoJunk
    /\ dburst = NoBurst
    /\ dret = 0
    /\ SbdIdle
    /\ VoiceIdle
    /\ CapIdle

\* descramble_payload(data, llr, data_len, bch_stream, 512, &fixederrs) and
\* the same call with llr = NULL
ChaseDescramble ==
    /\ op = "payload"
    /\ \E js \in ChaseJunk(dframe, TRUE), jh \in ChaseJunk(dframe, FALSE) :
          /\ djunk' = [soft |-> js, hard |-> jh]
          /\ dburst' = [soft |-> descramble_payload(dframe.data, dframe.llr,
                                                    dframe.data_len,
                                                    IDA_BCH_BUF, js),
                        hard |-> descramble_payload(dframe.data, NoLlr,
                                                    dframe.data_len,
                                                    IDA_BCH_BUF, jh)]
    /\ op' = "descrambled"
    /\ UNCHANGED <<dframe, dgen, dret, idaVars, sbdVars, voiceVars>>
    /\ UNCHANGED capVars

ChaseNext ==
    ChaseDescramble

SpecChase == ChaseInit /\ [][ChaseNext]_vars

----------------------------------------------------------------------------
(* SpecLcw: decode_lcw applied to the 46 bits that carry one LCW.  The     *)
(* three fields are encoded with the generators 29, 465 and 41; lcw2 is    *)
(* sent without the last bit of its 14-bit code word, which decode_lcw     *)
(* replaces by 0.  Bits are flipped in one component: none, one bit, or    *)
(* two bits of lcw3.  dgen is the tuple with the flipped positions (1..46  *)
(* of the de-interleaved word), dframe the 46 bits, dburst the result.     *)

LcwFts == 0 .. 7

\* <<lcw_ft, lcw_code>>
LcwCodes == { <<0, 0>>, <<0, 1>>, <<1, 5>>, <<2, 10>>, <<3, 15>> }

\* lcw3_val: the smallest and the largest value and one between
Lcw3Vals == {0, 1398101, 2097151}

\* the positions of the three components in the de-interleaved word
Lcw1Pos == 1 .. 7

Lcw2Pos == 8 .. 20

Lcw3Pos == 21 .. 46

LcwFlips ==
    {{}} \cup { {i} : i \in Lcw1Pos \cup Lcw2Pos \cup Lcw3Pos }
         \cup { {i, j} : i, j \in Lcw3Pos }

\* the 14-bit code word of lcw2
Lcw2Word(lcw_ft, lcw_code) ==
    BchEncode(BCH_POLY_LCW2, uint_to_bits(16 * lcw_ft + lcw_code, 6), 8)

\* the 46 bits of the tuple t with the bits of err flipped: the code words,
\* then the inverse of the permutation and of the pair swap
LcwEncode(t, err) ==
    LET clean == BchEncode(BCH_POLY_LCW1, uint_to_bits(t.ft, 3), 4)
                 \o SubSeq(Lcw2Word(t.lcw_ft, t.lcw_code), 1, 13)
                 \o BchEncode(BCH_POLY_LCW3, uint_to_bits(t.lcw3_val, 21), 5)
    IN  LcwInterleave(Array([i \in 1 .. 46 |->
                                IF i \in err THEN 1 - clean[i] ELSE clean[i]]))

LcwInit ==
    /\ slots = [i \in SlotIdx |-> EmptySlot]
    /\ ret = 0
    /\ cbs = <<>>
    /\ last = NoBurst
    /\ pending = NoBurst
    /\ ncalls = 0
    /\ seq = NoSeq
    /\ op = "lcw"
    /\ \E ft \in LcwFts, c \in LcwCodes, v \in Lcw3Vals, err \in LcwFlips :
          /\ dgen = [ft |-> ft, lcw_ft |-> c[1], lcw_code |-> c[2],
                     lcw3_val |-> v, err |-> err]
          /\ dframe = [bits |-> LcwEncode(dgen, err)]
    /\ djunk = NoJunk
    /\ dburst = NoBurst
    /\ dret = 0
    /\ SbdIdle
    /\ VoiceIdle
    /\ CapIdle

\* a call of decode_lcw(data, 46, &lcw)
LcwDecode ==
    /\ op = "lcw"
    /\ \E r \in {decode_lcw(dframe.bits, 46)} :
          /\ dburst' = r
          /\ dret' = IF r.ok THEN 1 ELSE 0
    /\ op' = "decoded"
    /\ UNCHANGED <<dframe, dgen, djunk, idaVars, sbdVars, voiceVars>>
    /\ UNCHANGED capVars

LcwNext ==
    LcwDecode

SpecLcw == LcwInit /\ [][LcwNext]_vars

----------------------------------------------------------------------------
(* SpecBch: chase_bch_da on the code word of a 20-bit data word with up to *)
(* three flipped bits, without LLRs and with LLRs.  dgen is the data word, *)
(* the flipped bits (bit 0 the least significant bit of the 31-bit word)   *)
(* and the block position with the low LLR; dframe the block and the LLRs, *)
(* dburst the result of the call.                                          *)

\* data words: none, one and half of the bits set, and all of them
BchDatas == {0, 1, 699050, 1048575}

\* the bits among which the three flipped bits of a call with LLRs lie
BchSoftBits == 0 .. 5

\* error words of one and two bits, all of them; of three bits, all of them
BchFlips ==
    {{}} \cup { {i} : i \in 0 .. 30 } \cup { {i, j} : i, j \in 0 .. 30 }
         \cup { {i, j, k} : i, j, k \in 0 .. 30 }

\* block positions (0 the first bit of the block) given the low LLR; -1 for
\* LLRs that are all equal, -2 for llr31 == NULL
BchWeak(err) ==
    IF Cardinality(err) = 3 /\ err \subseteq BchSoftBits
    THEN -2 .. 30
    ELSE {-2, -1}

\* the LLRs of a block: 1 at the weak position, 10 elsewhere
BchLlr(weak) ==
    IF weak = -2 THEN NoLlr
    ELSE [i \in 1 .. 31 |-> IF i = weak + 1 THEN 1 ELSE 10]

BchInit ==
    /\ slots = [i \in SlotIdx |-> EmptySlot]
    /\ ret = 0
    /\ cbs = <<>>
    /\ last = NoBurst
    /\ pending = NoBurst
    /\ ncalls = 0
    /\ seq = NoSeq
    /\ op = "bch"
    /\ \E data \in BchDatas, err \in BchFlips :
          \E weak \in BchWeak(err) :
             /\ dgen = [data |-> data, err |-> err, weak |-> weak]
             /\ dframe = [block31 |->
                             FlipBits(BchEncode(BCH_POLY_DA,
                                                uint_to_bits(data, BCH_DA_DATA),
                                                BCH_DA_SYN), err),
                          llr31 |-> BchLlr(weak)]
    /\ djunk = NoJunk
    /\ dburst = NoBurst
    /\ dret = 0
    /\ SbdIdle
    /\ VoiceIdle
    /\ CapIdle

\* a call of chase_bch_da(block31, llr31, out_data, &fixed)
BchDecode ==
    /\ op = "bch"
    /\ \E r \in {chase_bch_da(dframe.block31, dframe.llr31)} :
          /\ dburst' = r
          /\ dret' = r.ret
    /\ op' = "decoded"
    /\ UNCHANGED <<dframe, dgen, djunk, idaVars, sbdVars, voiceVars>>
    /\ UNCHANGED capVars

BchNext ==
    BchDecode

SpecBch == BchInit /\ [][BchNext]_vars

----------------------------------------------------------------------------
(* SpecKermit: acars_parse applied to one message that ends with the       *)
(* CRC-16/Kermit of its body, low byte first, and 0x7f.  The bodies are    *)
(* short byte sequences of every shape, long ones without structure, and   *)
(* ACARS bodies with odd parity.                                           *)

\* the bytes of the short bodies
KermitBytes == {0, 3, 127, 200, 255}

\* bodies of up to three bytes
KermitShort ==
    {<<>>} \cup { <<a>> : a \in KermitBytes }
           \cup { <<a, b>> : a, b \in KermitBytes }
           \cup { <<a, b, c>> : a, b, c \in KermitBytes }

\* bodies of 13 and of 40 bytes that fail the parity check; the last
\* starts with 0x03
KermitLong ==
    { Array([i \in 1 .. n |-> (37 * i + k) % 256]) :
        n \in {13, 40}, k \in {0, 3, 100, 255, 222} }

\* ACARS bodies with odd parity
KermitAcars ==
    { AcarsBody([BaseMsg EXCEPT !.len = l, !.end = e]) :
        l \in {13, 14, 30}, e \in {3, 23, 127} }

\* the message: marker, optional header, body, CRC low and high byte, 0x7f
KermitMessage(body, hdr) ==
    <<1>> \o (IF hdr THEN <<3, 16, 32, 48, 64, 80, 96, 112>> ELSE <<>>)
    \o body
    \o <<crc16_kermit(body) % 256, crc16_kermit(body) \div 256, 127>>

KermitInit ==
    /\ slots = [i \in SlotIdx |-> EmptySlot]
    /\ ret = 0
    /\ cbs = <<>>
    /\ last = NoBurst
    /\ pending = NoBurst
    /\ ncalls = 0
    /\ seq = NoSeq
    /\ op = "message"
    /\ DecIdle
    /\ VoiceIdle
    /\ sbd_multi = [i \in MultiIdx |-> EmptyMulti]
    /\ ts_initialized = 0
    /\ first_ts_ns = 0
    /\ sbd_in = NoPacket
    /\ sbd_dlv = <<>>
    /\ printed = <<>>
    /\ sbd_n = 0
    /\ sseq = NoSbdSeq
    /\ \E body \in KermitShort \cup KermitLong \cup KermitAcars,
          hdr \in BOOLEAN, json \in {0, 1}, ul \in {0, 1} :
          /\ acars_json = json
          /\ acars_in = [gen |-> [body |-> body, hdr |-> hdr],
                         data |-> KermitMessage(body, hdr), ul |-> ul,
                         timestamp |-> 1000, frequency |-> BaseFreq,
                         magnitude |-> Magnitude]
    /\ CapIdle

KermitNext ==
    AcarsParse

SpecKermit == KermitInit /\ [][KermitNext]_vars

----------------------------------------------------------------------------
(* frame_output_print_ida: src/frame_output.c 203-362.  The line is kept   *)
(* as the record of the parts it is formatted from: the hex bytes with the *)
(* separators between them, the CRC section, the trailing bits and the SBD *)
(* preview.  Byte i of a C buffer is entry i + 1 of its sequence.          *)

\* burst->payload[i]: ida_decode clears the burst (line 545) and copies
\* payload_len bytes (line 653), so the entries after them are 0
PayloadAt(burst, i) ==
    IF i < Len(burst.payload) THEN burst.payload[i + 1] ELSE 0

\* bs[i]: burst->bch_stream has 256 entries (ida_decode.h:50); a read past
\* them yields whatever byte the build finds there
BsAt(burst, i, junk) ==
    IF i < IDA_BCH_KEEP THEN burst.bch_stream[i + 1] ELSE junk

\* lines 277-280: the loop starts at da_len + 1
DumpAllZero(burst) ==
    \A i \in (burst.da_len + 1) .. (IDA_PAYLOAD_BYTES - 1) :
        PayloadAt(burst, i) = 0

\* lines 274-305: the bytes printed and the separators between them
DumpHex(burst) ==
    IF burst.da_len > 0 /\ DumpAllZero(burst)
    THEN [bytes |-> Array([i \in 1 .. burst.da_len |->
                              PayloadAt(burst, i - 1)]),
          seps  |-> Array([i \in 1 .. (burst.da_len - 1) |-> "."])]
    ELSE [bytes |-> Array([i \in 1 .. IDA_PAYLOAD_BYTES |->
                              PayloadAt(burst, i - 1)]),
          seps  |-> Array([i \in 1 .. (IDA_PAYLOAD_BYTES - 1) |->
                              IF /\ burst.da_len > 0
                                 /\ i = burst.da_len
                                 /\ burst.da_len < IDA_PAYLOAD_BYTES
                              THEN "!" ELSE "."])]

\* lines 325-334
DumpCrc(burst) ==
    IF burst.da_len > 0
    THEN [text |-> IF burst.crc_ok # 0 THEN " CRC:OK" ELSE " CRC:no",
          stored |-> burst.stored_crc, computed |-> burst.computed_crc]
    ELSE [text |-> "  ---   ", stored |-> 0, computed |-> 0]

\* lines 336-343: the bits after the CRC, or " 0000" (four zero bits)
DumpTrailing(burst, junk) ==
    IF burst.bch_len > 9 * 20 + 16
    THEN Array([k \in 1 .. (burst.bch_len - 196) |->
                   BsAt(burst, 196 + k - 1, junk)])
    ELSE <<0, 0, 0, 0>>

\* lines 346-359: a byte outside 0x20 .. 0x7e prints as a dot (46)
DumpPreview(burst) ==
    IF burst.da_len > 0 /\ burst.bch_len >= 9 * 20
    THEN Array([i \in 1 .. IDA_PAYLOAD_BYTES |->
                   LET byte == bits_to_uint(SubSeq(burst.bch_stream,
                                                   20 + (i - 1) * 8 + 1,
                                                   20 + i * 8), 8)
                   IN  IF byte >= 32 /\ byte < 127 THEN byte ELSE 46])
    ELSE <<>>

\* the line of a burst when output is not suppressed
frame_output_print_ida(burst, junk) ==
    IF burst.bch_len < 20
    THEN [fmt |-> "IDA", lcw_header |-> burst.lcw_header, fields |-> FALSE]
    ELSE [fmt |-> "IDA", lcw_header |-> burst.lcw_header, fields |-> TRUE,
          len |-> burst.da_len, hex |-> DumpHex(burst),
          crc |-> DumpCrc(burst), trailing |-> DumpTrailing(burst, junk),
          preview |-> DumpPreview(burst)]

----------------------------------------------------------------------------
(* SpecDump: a frame is decoded by ida_decode and the burst is printed by  *)
(* frame_output_print_ida.  The frames carry payloads whose bytes from     *)
(* da_len on are zero, all set, or zero but for one, in streams of 200,    *)
(* 280 and 500 bits.                                                       *)

DumpGens ==
    { [BaseGen EXCEPT !.da_len = l, !.tail = t, !.tag = g, !.nfull = f,
                      !.fill = z, !.crc_good = k] :
        l \in {0, 1, 5, 19, 20}, t \in {"zero", "set", "first", "second"},
        g \in {3, 200}, f \in {2, 3, 7}, z \in {0, 1}, k \in BOOLEAN }

\* the bytes a read past bch_stream may find
DumpJunk(burst) ==
    IF burst.bch_len > IDA_BCH_KEEP THEN {0, 1, 244} ELSE {0}

DumpInit ==
    /\ slots = [i \in SlotIdx |-> EmptySlot]
    /\ ret = 0
    /\ cbs = <<>>
    /\ last = NoBurst
    /\ pending = NoBurst
    /\ ncalls = 0
    /\ seq = NoSeq
    /\ op = "frame"
    /\ \E g \in DumpGens : dgen = g /\ dframe = EncodeFrame(g)
    /\ djunk = NoJunk
    /\ dburst = NoBurst
    /\ dret = 0
    /\ SbdIdle
    /\ VoiceIdle
    /\ CapIdle

\* a call of frame_output_print_ida(&burst) after ida_decode returned 1
DumpPrint ==
    /\ op = "decode"
    /\ dret = 1
    /\ \E junk \in DumpJunk(dburst) :
          /\ printed' = << frame_output_print_ida(dburst, junk) >>
          /\ djunk' = [djunk EXCEPT !.bit = junk]
    /\ op' = "print"
    /\ UNCHANGED <<dframe, dgen, dburst, dret, idaVars, voiceVars,
                   sbd_multi, acars_json, ts_initialized, first_ts_ns,
                   sbd_in, sbd_dlv, sbd_n, sseq, acars_in>>
    /\ UNCHANGED capVars

DumpNext ==
    \/ Decode
    \/ DumpPrint

SpecDump == DumpInit /\ [][DumpNext]_vars

----------------------------------------------------------------------------
(* SpecCapture: the capture thread of one SDR backend and the SIGINT       *)
(* handler.  soapy_stream_thread: src/soapysdr.c 150-247;                  *)
(* usrp_stream_thread: src/usrp.c 185-251; bladerf_rx_cb and               *)
(* bladerf_stream_thread: src/bladerf.c 82-144.  running is a plain        *)
(* sig_atomic_t (soapysdr.c:20); every read of it follows a call the       *)
(* compiler cannot see through, so each read yields the value the flag has *)
(* at that step.                                                           *)

\* buffers a thread allocates while running stays set
MaxBufs == 3

\* bladerf.c:132: the thread gives up at the fifth consecutive timeout
BLADERF_MAX_TIMEOUTS == 5

CapDevs == {"soapy", "usrp", "bladerf"}

\* the thread has left its loop, or the process has ended
CapOutOfLoop == {"exit", "done", "exited", "crashed"}

\* malloc returned a buffer
Malloc ==
    [alloc |-> TRUE, held |-> TRUE, pushed |-> 0, freed |-> 0, seen |-> -1]

\* free(s)
Free(buf) ==
    [buf EXCEPT !.held = FALSE, !.freed = @ + 1]

\* if (running) push_samples(s); else free(s);
PushOrFree(buf, r) ==
    IF r # 0
    THEN [buf EXCEPT !.held = FALSE, !.pushed = @ + 1, !.seen = r]
    ELSE [buf EXCEPT !.held = FALSE, !.freed = @ + 1, !.seen = r]

CaptureInit ==
    /\ slots = [i \in SlotIdx |-> EmptySlot]
    /\ ret = 0
    /\ cbs = <<>>
    /\ last = NoBurst
    /\ pending = NoBurst
    /\ ncalls = 0
    /\ seq = NoSeq
    /\ DecIdle
    /\ SbdIdle
    /\ VoiceIdle
    /\ op = "start"
    /\ running = 1
    /\ cap_dev \in CapDevs
    /\ cap_pc = "loop"
    /\ cap_buf = NoBuf
    /\ timeouts = 0
    /\ cap_n = 0

CapOthers == <<idaVars, decVars, sbdVars, voiceVars>>

\* the SIGINT handler clears the flag
SigInt ==
    /\ cap_pc \notin {"done", "exited", "crashed"}
    /\ running = 1
    /\ running' = 0
    /\ op' = "sigint"
    /\ UNCHANGED <<cap_dev, cap_pc, cap_buf, timeouts, cap_n, CapOthers>>

\* soapysdr.c 185-190: the loop test and the checked malloc
SoapyLoop ==
    /\ cap_pc = "loop"
    /\ IF running # 0
       THEN /\ cap_n < MaxBufs
            /\ \E ok \in BOOLEAN :
                  IF ok
                  THEN /\ cap_buf' = Malloc
                       /\ cap_n' = cap_n + 1
                       /\ cap_pc' = "read"
                  ELSE /\ cap_pc' = "exit"
                       /\ UNCHANGED <<cap_buf, cap_n>>
       ELSE /\ cap_pc' = "exit"
            /\ UNCHANGED <<cap_buf, cap_n>>
    /\ UNCHANGED running

\* soapysdr.c 192-228: SoapySDRDevice_readStream returns
SoapyRead ==
    /\ cap_pc = "read"
    /\ \E r \in {"timeout", "overflow", "error", "samples"} :
          CASE r \in {"timeout", "overflow"} ->
                  /\ cap_buf' = Free(cap_buf)
                  /\ cap_pc' = "loop"
            [] r = "error" ->
                  /\ cap_buf' = Free(cap_buf)
                  /\ cap_pc' = "exit"
            [] OTHER ->
                  /\ cap_pc' = "check"
                  /\ UNCHANGED cap_buf
    /\ UNCHANGED <<running, cap_n>>

\* soapysdr.c 230-235
SoapyPush ==
    /\ cap_pc = "check"
    /\ cap_buf' = PushOrFree(cap_buf, running)
    /\ cap_pc' = "loop"
    /\ UNCHANGED <<running, cap_n>>

\* soapysdr.c 238-246
SoapyExit ==
    /\ cap_pc = "exit"
    /\ running' = 0
    /\ cap_pc' = "done"
    /\ UNCHANGED <<cap_buf, cap_n>>

SoapyStep ==
    /\ cap_dev = "soapy"
    /\ SoapyLoop \/ SoapyRead \/ SoapyPush \/ SoapyExit
    /\ op' = "soapy"
    /\ UNCHANGED <<cap_dev, timeouts, CapOthers>>

\* usrp.c 217-220: the loop test and the malloc, whose result is written
\* through unchecked: a null result ends the process
UsrpLoop ==
    /\ cap_pc = "loop"
    /\ IF running # 0
       THEN /\ cap_n < MaxBufs
            /\ \E ok \in BOOLEAN :
                  IF ok
                  THEN /\ cap_buf' = Malloc
                       /\ cap_n' = cap_n + 1
                       /\ cap_pc' = "read"
                  ELSE /\ cap_pc' = "crashed"
                       /\ UNCHANGED <<cap_buf, cap_n>>
       ELSE /\ cap_pc' = "exit"
            /\ UNCHANGED <<cap_buf, cap_n>>

\* usrp.c 221-236: uhd_rx_streamer_recv returns; an error code other than
\* NONE and 8 (overflow) ends the process through errx
UsrpRead ==
    /\ cap_pc = "read"
    /\ \E code \in {"none", "overflow", "timeout"} :
          cap_pc' = IF code \in {"none", "overflow"} THEN "check"
                    ELSE "exited"
    /\ UNCHANGED <<cap_buf, cap_n>>

\* usrp.c 238-241
UsrpPush ==
    /\ cap_pc = "check"
    /\ cap_buf' = PushOrFree(cap_buf, running)
    /\ cap_pc' = "loop"
    /\ UNCHANGED cap_n

\* usrp.c 244-250
UsrpExit ==
    /\ cap_pc = "exit"
    /\ cap_pc' = "done"
    /\ UNCHANGED <<cap_buf, cap_n>>

UsrpStep ==
    /\ cap_dev = "usrp"
    /\ UsrpLoop \/ UsrpRead \/ UsrpPush \/ UsrpExit
    /\ op' = "usrp"
    /\ UNCHANGED <<running, cap_dev, timeouts, CapOthers>>

\* bladerf.c 127: the loop test; bladerf_stream is entered
BladerfLoop ==
    /\ cap_pc = "loop"
    /\ cap_pc' = IF running # 0 THEN "stream" ELSE "exit"
    /\ UNCHANGED <<running, cap_buf, cap_n, timeouts>>

\* bladerf.c 82-101: bladerf_rx_cb, called from inside bladerf_stream; the
\* malloc result is written through unchecked
BladerfCallback ==
    /\ cap_pc = "stream"
    /\ cap_n < MaxBufs
    /\ timeouts' = 0
    /\ \E ok \in BOOLEAN :
          IF ok
          THEN /\ cap_buf' = PushOrFree(Malloc, running)
               /\ cap_n' = cap_n + 1
               /\ cap_pc' = "stream"
          ELSE /\ cap_pc' = "crashed"
               /\ UNCHANGED <<cap_buf, cap_n>>
    /\ UNCHANGED running

\* bladerf.c 128-136: bladerf_stream returns
BladerfReturn ==
    /\ cap_pc = "stream"
    /\ \E status \in {"ok", "timeout", "error"} :
          CASE status = "error" ->
                  /\ cap_pc' = "exit"
                  /\ UNCHANGED <<running, timeouts>>
            [] status = "timeout" ->
                  /\ timeouts' = timeouts + 1
                  /\ running' = IF timeouts + 1 < BLADERF_MAX_TIMEOUTS
                                THEN running ELSE 0
                  /\ cap_pc' = "loop"
            [] OTHER ->
                  /\ cap_pc' = "loop"
                  /\ UNCHANGED <<running, timeouts>>
    /\ UNCHANGED <<cap_buf, cap_n>>

\* bladerf.c 138-143
BladerfExit ==
    /\ cap_pc = "exit"
    /\ running' = 0
    /\ cap_pc' = "done"
    /\ UNCHANGED <<cap_buf, cap_n, timeouts>>

BladerfStep ==
    /\ cap_dev = "bladerf"
    /\ BladerfLoop \/ BladerfCallback \/ BladerfReturn \/ BladerfExit
    /\ op' = "bladerf"
    /\ UNCHANGED <<cap_dev, CapOthers>>

CaptureNext ==
    \/ SigInt
    \/ SoapyStep
    \/ UsrpStep
    \/ BladerfStep

SpecCapture == CaptureInit /\ [][CaptureNext]_vars

\* the thread keeps running, and a device call that is entered returns
SpecCaptureFair ==
    /\ SpecCapture
    /\ WF_vars(SoapyStep)
    /\ WF_vars(UsrpStep)
    /\ WF_vars(BladerfStep)
    /\ SF_vars(BladerfStep /\ BladerfReturn)

----------------------------------------------------------------------------
(* SpecBuffers: the two reassemblers, each fed one sequence.  A behaviour  *)
(* either feeds the IDA reassembler a burst sequence (as SpecSeq does, up  *)
(* to 14 bursts of 7 or 20 bytes) or feeds sbd_extract a packet sequence   *)
(* (as SpecSbdSeq does, up to 5 packets of 3 or 220 bytes, twice); the     *)
(* reassembler that is not fed stays empty.                                *)

\* the burst sequence is over before it began
SeqNotFed == [NoSeq EXCEPT !.done = TRUE]

\* the packet sequence is over before it began
SbdSeqNotFed ==
    [script |-> [n |-> 0, ul |-> 0, cmc |-> -1, plen |-> 0, gap |-> 0],
     k |-> 0, pass |-> MaxPasses, clock |-> 1000, count |-> 0, msg |-> <<>>,
     expect |-> <<>>]

BuffersInit ==
    /\ slots = [i \in SlotIdx |-> EmptySlot]
    /\ ret = 0
    /\ cbs = <<>>
    /\ last = NoBurst
    /\ pending = NoBurst
    /\ ncalls = 0
    /\ op = "init"
    /\ DecIdle
    /\ VoiceIdle
    /\ CapIdle
    /\ sbd_multi = [i \in MultiIdx |-> EmptyMulti]
    /\ acars_json = 0
    /\ ts_initialized = 0
    /\ first_ts_ns = 0
    /\ sbd_in = NoPacket
    /\ sbd_dlv = <<>>
    /\ printed = <<>>
    /\ sbd_n = 0
    /\ acars_in = NoPacket
    /\ \/ /\ \E pat \in [1 .. PatLen -> SeqLens] :
                seq = [NoSeq EXCEPT !.lens = pat]
          /\ sseq = SbdSeqNotFed
       \/ /\ seq = SeqNotFed
          /\ \E sc \in SbdScripts :
                sseq = [script |-> sc, k |-> 0, pass |-> 1, clock |-> 1000,
                        count |-> 0, msg |-> <<>>, expect |-> <<>>]

BuffersNext ==
    \/ \E gap \in SeqGaps, isLast \in BOOLEAN : SeqArrive(gap, isLast)
    \/ SeqFlush
    \/ SeqFeed
    \/ SbdSeqFeed

SpecBuffers == BuffersInit /\ [][BuffersNext]_vars

----------------------------------------------------------------------------
(* SpecStop: descramble_payload on payloads of one to seven full blocks,   *)
(* with or without a last block of 64 entries, whose code words are all    *)
(* different; up to two of the words carry three bit errors.  The LLRs are *)
(* low on the flipped bits ("good": the Chase search repairs the word) or  *)
(* on five right bits ("far").  The call is made with the LLRs and with    *)
(* llr = NULL, as in SpecChase.                                            *)

StopFull == {1, 2, 6, 7}

StopRemains == {0, 64}

\* three bit errors (bit 0 the last)
StopErr == {4, 9, 20}

\* the number of code words of a payload
StopCount(nfull, remain) ==
    4 * nfull + (IF remain = 64 THEN 2 ELSE 0)

\* the words (in stream order) that carry the errors
StopBad(n) ==
    {{}} \cup { {k} : k \in {1, 2, 3, 4, 5, n - 2, n - 1, n} \cap (1 .. n) }
         \cup { {k, n} : k \in {2, n - 2} \cap (1 .. (n - 1)) }

StopGens ==
    { [nfull |-> f, remain |-> r, bad |-> b, llr |-> q] :
        f \in StopFull, r \in StopRemains,
        b \in UNION { StopBad(StopCount(ff, rr)) :
                         ff \in StopFull, rr \in StopRemains },
        q \in {"good", "far"} }

\* the 20 data bits of word k
StopData(k) ==
    uint_to_bits((k * 37501) % 1048576, BCH_DA_DATA)

\* word k as sent
StopWord(g, k) ==
    FlipBits(BchEncode(BCH_POLY_DA, StopData(k), BCH_DA_SYN),
             IF k \in g.bad THEN StopErr ELSE {})

\* the LLRs of word k
StopWordLlr(g, k) ==
    LET low == IF g.llr = "good" THEN StopErr \cup {25, 27} ELSE 10 .. 14
    IN  Array([i \in 1 .. 31 |->
                  IF k \in g.bad /\ (31 - i) \in low THEN 1 ELSE 5])

\* the payload of the words W(1), W(2), ...: the full blocks, then the last
\* block
RECURSIVE StopLayout(_, _, _, _)
StopLayout(W(_), nfull, remain, blk) ==
    IF blk = nfull
    THEN IF remain = 64
         THEN InterleaveTail(W(4 * nfull + 1), W(4 * nfull + 2), remain, W(1)[1])
         ELSE <<>>
    ELSE InterleaveFull(<<W(4 * blk + 1), W(4 * blk + 2), W(4 * blk + 3),
                          W(4 * blk + 4)>>)
         \o StopLayout(W, nfull, remain, blk + 1)

StopPayload(g) ==
    LET Wd(k) == StopWord(g, k)
        Wl(k) == StopWordLlr(g, k)
        data  == StopLayout(Wd, g.nfull, g.remain, 0)
    IN  [data |-> data, llr |-> StopLayout(Wl, g.nfull, g.remain, 0),
         data_len |-> Len(data)]

StopInit ==
    /\ slots = [i \in SlotIdx |-> EmptySlot]
    /\ ret = 0
    /\ cbs = <<>>
    /\ last = NoBurst
    /\ pending = NoBurst
    /\ ncalls = 0
    /\ seq = NoSeq
    /\ op = "payload"
    /\ \E g \in StopGens :
          /\ g.bad \in StopBad(StopCount(g.nfull, g.remain))
          /\ dgen = g
          /\ dframe = StopPayload(g)
    /\ djunk = NoJunk
    /\ dburst = NoBurst
    /\ dret = 0
    /\ SbdIdle
    /\ VoiceIdle
    /\ CapIdle

StopNext ==
    ChaseDescramble

SpecStop == StopInit /\ [][StopNext]_vars

----------------------------------------------------------------------------
(* SpecSbdTable: sbd_extract on a table that holds messages in progress.   *)
(* The table of the initial state is the one sbd_extract leaves after the  *)
(* first packets of two, seven or eight downlink messages, received at the *)
(* times of a pattern; message m carries the bytes 10 * m + j in its       *)
(* packet j.  Then up to MaxSbdCalls packets follow: the first packet of a *)
(* new message, or the second or third packet of message 1 or 2, soon      *)
(* after the last first packet, or late enough to expire some or all of    *)
(* the table.  sseq records the pattern.                                   *)

\* packet j of message m
MsgBytes(m, j) ==
    SbdBytes(10 * m + j, SbdLen)

\* the times the first packets were received, in the order of the calls,
\* and the msgcnt they carry
TablePatterns ==
    { [times |-> t, cnt |-> c] :
        t \in { <<1000, 1100>>,
                <<1000, 1100, 1200, 1300, 1400, 1500, 1600>>,
                <<1000, 1100, 1200, 1300, 1400, 1500, 1600, 1700>>,
                <<1500, 1400, 1000, 1600, 1000, 1700, 1200, 1300>>,
                <<1700, 1600, 1500, 1400, 1300, 1200, 1100, 1050>> },
        c \in {2, 3} }

TableTimes == {1800, 6250, 9000}

\* <<data, ul>>: the packets that follow
TablePackets(c) ==
    { <<DlPacket(3, 1, MsgBytes(9, 1)), 0>> }
      \cup { <<DlNextPacket(j, MsgBytes(m, j)), 0>> :
                m \in {1, 2}, j \in 2 .. c }

\* the table after the first packets k, k + 1, ... of the pattern
RECURSIVE TableAfter(_, _, _)
TableAfter(multi, pat, k) ==
    IF k > Len(pat.times) \/ multi[0].active < 0 THEN multi
    ELSE TableAfter(sbd_extract(multi,
                                Packet(DlPacket(pat.cnt, 1, MsgBytes(k, 1)),
                                       0, pat.times[k])).multi,
                    pat, k + 1)

SbdTableInit ==
    /\ slots = [i \in SlotIdx |-> EmptySlot]
    /\ ret = 0
    /\ cbs = <<>>
    /\ last = NoBurst
    /\ pending = NoBurst
    /\ ncalls = 0
    /\ seq = NoSeq
    /\ op = "init"
    /\ DecIdle
    /\ VoiceIdle
    /\ CapIdle
    /\ \E pat \in TablePatterns :
          /\ sseq = pat
          /\ sbd_multi = TableAfter([i \in MultiIdx |-> EmptyMulti], pat, 1)
    /\ acars_json = 0
    /\ ts_initialized = 0
    /\ first_ts_ns = 0
    /\ sbd_in = NoPacket
    /\ sbd_dlv = <<>>
    /\ printed = <<>>
    /\ sbd_n = 0
    /\ acars_in = NoPacket

SbdTableNext ==
    \E p \in TablePackets(sseq.cnt), ts \in TableTimes : Extract(p[1], p[2], ts)

SpecSbdTable == SbdTableInit /\ [][SbdTableNext]_vars

----------------------------------------------------------------------------
(* SpecVoiceFull: voice_decode_add_frame and voice_decode_flush on a table *)
(* of active calls that is full or nearly full, and on a call that is      *)
(* about to reach VOICE_MAX_FRAMES frames.  The initial table is the one   *)
(* voice_decode_add_frame leaves after the frames of seven or eight calls  *)
(* 100 kHz apart (call k on FullFreq(k), its frames 90 ms apart from the   *)
(* time the pattern gives), or after 1998 to 2000 frames of one call, 90   *)
(* ms apart on FullFreq(0).  Frequencies are absolute here, in Hz, and     *)
(* small enough for the sum of 2003 of them; the code puts no condition on *)
(* the frequency it is given.                                              *)

FullFreq(k) == 1000000 + 100000 * k

VocFrameGap == 90

\* the times of the first frames in the order of the calls, and the decoder
\* results of the frames of every call: one or two frames, three frames
\* with 6, 3, 4 and 3 decoded sub-frames
FullPatterns ==
    { [times |-> t, rvs |-> r] :
        t \in { <<100, 200, 300, 400, 500, 600, 700>>,
                <<100, 200, 300, 400, 500, 600, 700, 800>>,
                <<500, 400, 100, 600, 100, 700, 200, 300>> },
        r \in { <<2>>, <<2, 2>>, <<2, 2, 2>>, <<1, 1, 1>>, <<1, 1, 2>>,
                <<2, 1, 0>> } }

\* the frames of the calls of a pattern, call after call
FullFramesOf(pat) ==
    [i \in 1 .. (Len(pat.times) * Len(pat.rvs)) |->
        LET k == (i - 1) \div Len(pat.rvs)
            j == (i - 1) % Len(pat.rvs)
        IN  VocFrame(pat.times[k + 1] + VocFrameGap * j, FullFreq(k),
                     pat.rvs[j + 1])]

\* the statics after voice_decode_add_frame on the frames i, i + 1, ...
RECURSIVE VoiceAfter(_, _, _)
VoiceAfter(v, frames, i) ==
    IF i > Len(frames) \/ v.head < 0 THEN v
    ELSE VoiceAfter(VoiceAdd(v, frames[i], TRUE).v, frames, i + 1)

\* the frames a long call holds at the start
LongCounts ==
    {VOICE_MAX_FRAMES - 2, VOICE_MAX_FRAMES - 1, VOICE_MAX_FRAMES}

\* the call after n frames on FullFreq(0), 90 ms apart: what n calls of
\* voice_decode_add_frame leave in slot 0 of the empty table
LongCall(n) ==
    [active |-> 1, n_frames |-> n, first_time |-> VocFrameGap,
     last_time |-> VocFrameGap * n, freq_sum |-> FullFreq(0) * n,
     frames |-> Array([i \in 1 .. n |->
                          VocFrame(VocFrameGap * i, FullFreq(0), 2)])]

FullEmpty ==
    [active |-> [i \in ActiveIdx |-> EmptyActive],
     calls |-> [i \in CallIdx |-> EmptyCall], head |-> 0, count |-> 0,
     total_calls |-> 0, heap |-> EmptyHeap,
     frames |-> [i \in CallIdx |-> <<>>]]

\* the statics take the values they have at the start
VoiceStart(v, n) ==
    /\ active_calls = v.active
    /\ calls = v.calls
    /\ call_head = v.head
    /\ call_count = v.count
    /\ total_calls = v.total_calls
    /\ heap = v.heap
    /\ call_frames = v.frames
    /\ total_frames = n

\* the frames that follow: on a frequency of no call, on that of call 0 and
\* 15 kHz above it; soon after the first frames or after the long call
FullFrames ==
    { VocFrame(t, f, 2) :
        t \in {1000, VocFrameGap * VOICE_MAX_FRAMES + 1000},
        f \in {FullFreq(0) - 100000, FullFreq(0), FullFreq(0) + 15000} }

\* voice operations per behaviour of SpecVoiceFull
MaxFullOps == 3

VoiceFullInit ==
    /\ slots = [i \in SlotIdx |-> EmptySlot]
    /\ ret = 0
    /\ cbs = <<>>
    /\ last = NoBurst
    /\ pending = NoBurst
    /\ ncalls = 0
    /\ seq = NoSeq
    /\ op = "init"
    /\ DecIdle
    /\ SbdIdle
    /\ \/ \E pat \in FullPatterns :
             VoiceStart(VoiceAfter(FullEmpty, FullFramesOf(pat), 1),
                        Len(pat.times) * Len(pat.rvs))
       \/ \E n \in LongCounts :
             VoiceStart([FullEmpty EXCEPT !.active[0] = LongCall(n)], n)
    /\ ambe_dec = 1
    /\ voice_lock = "free"
    /\ voc = [op |-> "init", n |-> 0]
    /\ vthr = NoThreads
    /\ CapIdle

VoiceFullAdd ==
    /\ voc.n < MaxFullOps
    /\ \E frame \in FullFrames, malloc_ok \in BOOLEAN :
          AddFrame(frame, malloc_ok)

VoiceFullFlush ==
    /\ voc.n < MaxFullOps
    /\ VoiceFlush({})

VoiceFullNext ==
    VoiceFullAdd \/ VoiceFullFlush

SpecVoiceFull == VoiceFullInit /\ [][VoiceFullNext]_vars

----------------------------------------------------------------------------
(* SpecVoiceRing: the two threads of SpecVoiceThreads on an archive that   *)
(* is full or one entry short of it.  The initial statics are those        *)
(* voice_decode_add_frame leaves after the frames of 100 or 101 calls of   *)
(* three decodable frames on one frequency, each call ArchPeriod after the *)
(* one before (the calls of SpecArchive that are archived): 99 or 100      *)
(* archived calls and the last call still active.  The next frame of the   *)
(* demodulation thread finalizes it.                                       *)

RingCalls == {VOICE_MAX_CALLS, VOICE_MAX_CALLS + 1}

\* frame j of call k
RingFrame(k, j) ==
    VocFrame(k * ArchPeriod + j * ArchFrameGap, 0, 2)

RingFramesOf(k) ==
    <<RingFrame(k, 0), RingFrame(k, 1), RingFrame(k, 2)>>

\* the statics after the frames of calls 1 .. n: calls 1 .. n - 1 were
\* finalized by the first frame of the next call and took the ring entries
\* 0 .. n - 2 and the buffers 1 .. n - 1; call n is active in slot 0
RingStart(n) ==
    [active |-> [i \in ActiveIdx |->
                    IF i = 0
                    THEN [active |-> 1, n_frames |-> 3,
                          first_time |-> RingFrame(n, 0).timestamp,
                          last_time |-> RingFrame(n, 2).timestamp,
                          freq_sum |-> 0, frames |-> RingFramesOf(n)]
                    ELSE EmptyActive],
     calls |-> [i \in CallIdx |->
                   IF i < n - 1
                   THEN [valid |-> 1,
                         start_time |-> RingFrame(i + 1, 0).timestamp,
                         end_time |-> RingFrame(i + 1, 2).timestamp,
                         frequency |-> [num |-> 0, den |-> 3],
                         n_frames |-> 3,
                         quality |-> classify_quality(3, 2 * ArchFrameGap),
                         audio |-> i + 1,
                         n_samples |-> 3 * VOICE_SAMPLES_PER_SF,
                         call_id |-> i]
                   ELSE EmptyCall],
     head |-> (n - 1) % VOICE_MAX_CALLS,
     count |-> n - 1,
     total_calls |-> n - 1,
     heap |-> [EmptyHeap EXCEPT !.live = 1 .. (n - 1), !.bufs = n - 1],
     frames |-> [i \in CallIdx |->
                    IF i < n - 1 THEN RingFramesOf(i + 1) ELSE <<>>]]

ThreadRingInit ==
    /\ slots = [i \in SlotIdx |-> EmptySlot]
    /\ ret = 0
    /\ cbs = <<>>
    /\ last = NoBurst
    /\ pending = NoBurst
    /\ ncalls = 0
    /\ seq = NoSeq
    /\ op = "init"
    /\ DecIdle
    /\ SbdIdle
    /\ \E n \in RingCalls :
          VoiceStart(RingStart(n), 3 * n)
    /\ ambe_dec = 1
    /\ voice_lock = "free"
    /\ voc = [op |-> "init", n |-> 0]
    /\ \E verbose \in {0, 1} :
          vthr = [demod |-> "idle", query |-> "idle", acc |-> {},
                  arg |-> NoVoc, plan |-> NoVoc, fi |-> -1, nd |-> 0,
                  qop |-> NoVoc, result |-> NoVoc, nq |-> 0,
                  verbose |-> verbose]
    /\ CapIdle

\* the demodulation thread adds frames; the other thread asks for the
\* oldest and for the newest entry of a full archive
ThreadRingNext ==
    \/ \E frame \in ThreadFrames : DCall(frame, TRUE)
    \/ DEnter
    \/ DLock
    \/ DStore
    \/ DUnlock
    \/ DFinish
    \/ \E index \in {0, VOICE_MAX_CALLS - 1} : QCall("get_call", index)
    \/ QLock
    \/ QRead
    \/ QUnlock

SpecVoiceRing == ThreadRingInit /\ [][ThreadRingNext]_vars

----------------------------------------------------------------------------
(* Properties of the IDA reassembler *)

\* the matching rule as the design states it: same direction, frequencies
\* within 260 Hz, the burst not older than the slot, not more than 280 ms
\* newer, and the next counter value modulo 8
RuleMatch(s, b) ==
    /\ s.active
    /\ s.direction = b.direction
    /\ Abs(s.frequency - b.frequency) <= 260
    /\ b.timestamp >= s.last_timestamp
    /\ b.timestamp - s.last_timestamp <= 280
    /\ (s.last_ctr + 1) % 8 = b.da_ctr

\* C1 (as stated): a sequence with no gap over 280 ms fires the callback
\* exactly once, on its last burst, with the concatenation of all payloads.
C1_AsStated ==
    ~ seq.longGap =>
        IF seq.done
        THEN seq.fired = 1 /\ seq.firedAtLast /\ seq.firedData = seq.expect
        ELSE seq.fired = 0

\* C1 (amended): a sequence with no gap over 280 ms fires the callback exactly
\* once, on its last burst, for every length of the sequence; the bytes are
\* the concatenation of all payloads when that is at most 256 bytes long,
\* and in general the concatenation of the payloads that fit: a burst whose
\* payload would take the message over 256 bytes is left out whole.
C1_Completeness ==
    ~ seq.longGap =>
        IF seq.done
        THEN /\ seq.fired = 1
             /\ seq.firedAtLast
             /\ seq.firedData = seq.kept
             /\ Len(seq.expect) <= 256 => seq.firedData = seq.expect
        ELSE seq.fired = 0

\* a complete ten-burst sequence, its counter wrapped from 7 to 0, delivered
\* whole
C1_Witness ==
    /\ seq.done
    /\ ~ seq.longGap
    /\ seq.n = 10
    /\ seq.fired = 1
    /\ Len(seq.expect) > 20
    /\ seq.firedData = seq.expect

\* C2 (as stated): a sequence with a gap over 280 ms never fires the callback.
C2_AsStated ==
    seq.longGap => seq.fired = 0

\* C2 (amended): a sequence with a gap over 280 ms never fires the callback,
\* provided no burst at or after the first such gap has da_ctr = 0 (so for
\* every sequence of at most 8 bursts); a burst with da_ctr = 0 after the gap
\* starts a new message.
C2_Timeout ==
    (seq.longGap /\ ~ seq.ctr0AfterGap) => seq.fired = 0

\* a finished sequence of five bursts with a long gap before its last burst
\* fired nothing
C2_Witness ==
    /\ seq.done
    /\ seq.longGap
    /\ ~ seq.ctr0AfterGap
    /\ seq.n = 5
    /\ seq.fired = 0
    /\ \E i \in SlotIdx : slots[i].active /\ slots[i].last_ctr = 3

\* the bursts the reassembler drops: a bad CRC, no payload, or a CRC-good
\* burst that matches no active slot of the table and has da_ctr # 0
DropCase(b, ctx) ==
    \/ ~ b.crc_ok
    \/ b.da_len = 0
    \/ /\ b.da_ctr # 0
       /\ \A i \in SlotIdx : ~ RuleMatch(ctx[i], b)

\* C3: a call of ida_reassemble with a dropped burst makes no callback,
\* returns 0 and leaves every slot as it was.
C3_DroppedNoEffect ==
    [][ (op' = "reassemble" /\ ncalls' = ncalls + 1 /\ DropCase(last', slots))
          => (slots' = slots /\ ret' = 0 /\ cbs' = <<>>) ]_vars

\* an orphan continuation was dropped in front of an active slot
C3_Witness ==
    /\ op = "reassemble"
    /\ last.crc_ok /\ last.da_len > 0 /\ last.da_ctr # 0
    /\ ret = 0 /\ cbs = <<>>
    /\ \E i \in SlotIdx :
          /\ slots[i].active
          /\ slots[i].direction = last.direction
          /\ slots[i].frequency = last.frequency
    /\ \A i \in SlotIdx :
          slots[i].active =>
             (slots[i].last_ctr # last.da_ctr /\ ~ RuleMatch(slots[i], last))

\* C6: ida_reassemble returns 1 exactly when it made a callback, and makes at
\* most one per call.
C6_RetIffCallback ==
    op = "reassemble" =>
        /\ ret \in {0, 1}
        /\ Len(cbs) <= 1
        /\ ret = 1 <=> Len(cbs) = 1

\* a call that completed a two-burst message returned 1 with one callback
C6_Witness ==
    /\ op = "reassemble"
    /\ ret = 1
    /\ Len(cbs) = 1
    /\ cbs[1].len = 2 * GoodLen

----------------------------------------------------------------------------
(* Properties of the IDA decoder *)

\* the BCH stream the call decoded the frame's payload to
DecodedStream ==
    FramePayload(dframe, djunk).bch_stream

\* the preconditions of a burst, in the order the design lists them: frame
\* length, direction, a correctable LCW of frame type 2, a stream of at
\* least 196 bits, the guard bits 17..19 zero, and a length field (bits
\* 11..15) of at most 20
DecodePre ==
    /\ dframe.n_bits >= 24 + 46 + 124
    /\ dframe.direction \in {DIR_UPLINK, DIR_DOWNLINK}
    /\ decode_lcw(SubSeq(dframe.bits, 25, dframe.n_bits), dframe.n_bits - 24).ok
    /\ decode_lcw(SubSeq(dframe.bits, 25, dframe.n_bits), dframe.n_bits - 24).ft = 2
    /\ Len(DecodedStream) >= 196
    /\ DecodedStream[18] = 0 /\ DecodedStream[19] = 0 /\ DecodedStream[20] = 0
    /\ 16 * DecodedStream[12] + 8 * DecodedStream[13] + 4 * DecodedStream[14]
         + 2 * DecodedStream[15] + DecodedStream[16] <= 20

\* C4: a frame that meets the preconditions is returned (ret = 1) with the
\* burst filled from the frame and the stream, whatever the CRC says, and
\* crc_ok is set iff da_len > 0 and the CRC computed over the stream is 0;
\* so a burst with da_len = 0 has crc_ok = 0.
C4_CrcDoesNotDiscard ==
    (op = "decode" /\ DecodePre) =>
        /\ dret = 1
        /\ dburst.timestamp = dframe.timestamp
        /\ dburst.frequency = dframe.center_frequency
        /\ dburst.direction = dframe.direction
        /\ dburst.bch_len = Len(DecodedStream)
        /\ dburst.da_len = bits_to_uint(SubSeq(DecodedStream, 12, 16), 5)
        /\ dburst.da_ctr = bits_to_uint(SubSeq(DecodedStream, 6, 8), 3)
        /\ dburst.cont = DecodedStream[4]
        /\ dburst.crc_ok \in {0, 1}
        /\ dburst.crc_ok = 1 <=>
              /\ dburst.da_len > 0
              /\ crc_ccitt(IdaCrcInput(DecodedStream, Len(DecodedStream))) = 0

\* a frame with a broken CRC and da_len > 0 came back as a burst with crc_ok = 0
C4_Witness ==
    /\ op = "decode"
    /\ ~ dgen.crc_good
    /\ dret = 1
    /\ dburst.da_len > 0
    /\ dburst.crc_ok = 0
    /\ dburst.computed_crc # 0

\* C5: ida_decode returns 1 only if every precondition holds; in every
\* other case it returns 0 and the output burst is all zero.
C5_BurstOnlyIfPreconditions ==
    op = "decode" =>
        /\ dret \in {0, 1}
        /\ dret = 1 => DecodePre
        /\ ~ DecodePre => (dret = 0 /\ dburst = ZeroBurst)

\* a frame that decoded to a full stream was rejected for its guard bits alone
C5_Witness ==
    /\ op = "decode"
    /\ dgen.zero1 # 0
    /\ dgen.da_len <= 20
    /\ Len(DecodedStream) >= 196
    /\ dret = 0
    /\ dburst = ZeroBurst

----------------------------------------------------------------------------
(* Properties of the SBD reassembler *)

\* C7 (as stated): when the last packet of the sequence has been fed, on
\* the first pass and on every replay, exactly one message was delivered in
\* that pass, it is the concatenation of the packet payloads, and no slot is
\* left active.
C7_AsStated ==
    sseq.k = sseq.script.n =>
        /\ sseq.count = 1
        /\ sseq.msg = sseq.expect
        /\ \A i \in MultiIdx : sbd_multi[i].active = 0

\* a two-packet downlink sequence whose second packet carries msgcnt = 2 was
\* fed whole: nothing was delivered and both packets sit in slots of their own
C7_Witness ==
    /\ sseq.k = 2
    /\ sseq.script.n = 2
    /\ sseq.script.cmc = 2
    /\ sseq.pass = 1
    /\ sseq.count = 0
    /\ sbd_multi[0].active = 1 /\ sbd_multi[0].msgno = 1
    /\ sbd_multi[1].active = 1 /\ sbd_multi[1].msgno = 2

\* the slot holds what storing the packet parsed as p writes: the packet's
\* msgno and its payload as the whole data
SlotOpenedBy(s, p) ==
    /\ s.active = 1
    /\ s.msgno = p.msgno
    /\ s.data = SubSeq(p.sbd_data, 1, Min(Len(p.sbd_data), 1024))

\* C8 (as stated): a call opens a slot (a slot changes and then holds the
\* packet as the start of a message) only for msgcnt > 1 and msgno = 1, never
\* for msgno > 1; a packet with msgno = 0 or with msgcnt = 1 and msgno = 1
\* changes no slot and its bytes, when there are any, are delivered.  Slots
\* are compared with the table as the timeout leaves it at the packet's
\* timestamp.
C8_AsStated ==
    [][ (op' = "extract" /\ SbdParse(sbd_in'.data, sbd_in'.ul).ok) =>
          LET p      == SbdParse(sbd_in'.data, sbd_in'.ul)
              before == sbd_expire(sbd_multi, sbd_in'.timestamp)
              opened == \E i \in MultiIdx :
                           /\ sbd_multi'[i] # before[i]
                           /\ SlotOpenedBy(sbd_multi'[i], p)
          IN  /\ opened => (p.msgcnt > 1 /\ p.msgno = 1)
              /\ p.msgno > 1 => ~ opened
              /\ (p.msgno = 0 \/ (p.msgcnt = 1 /\ p.msgno = 1)) =>
                    /\ sbd_multi' = before
                    /\ Len(p.sbd_data) > 0 =>
                          (Len(sbd_dlv') = 1 /\ sbd_dlv'[1].data = p.sbd_data)
      ]_vars

\* the first packet of a behaviour, parsed with msgcnt = 3 and msgno = 2, took
\* a slot of the empty table
C8_Witness ==
    /\ op = "extract"
    /\ sbd_n = 1
    /\ SbdParse(sbd_in.data, sbd_in.ul).msgno = 2
    /\ SbdParse(sbd_in.data, sbd_in.ul).msgcnt = 3
    /\ SlotOpenedBy(sbd_multi[0], SbdParse(sbd_in.data, sbd_in.ul))
    /\ sbd_dlv = <<>>

\* C9 (as stated): for a packet with msgno > 1, if some active slot of the
\* same direction has msgno + 1 = the packet's msgno, the payload is appended
\* to one such slot (clamped to 1024 bytes), the slot's msgno becomes the
\* packet's, and the bytes are delivered once and the slot freed exactly
\* when msgno reaches the slot's msgcnt; if there is no such slot nothing is
\* delivered and no slot changes.  Slots are those the timeout leaves active
\* at the packet's timestamp.
C9_AsStated ==
    [][ (op' = "extract" /\ SbdParse(sbd_in'.data, sbd_in'.ul).ok
           /\ SbdParse(sbd_in'.data, sbd_in'.ul).msgno > 1) =>
          LET p      == SbdParse(sbd_in'.data, sbd_in'.ul)
              before == sbd_expire(sbd_multi, sbd_in'.timestamp)
              match  == { i \in MultiIdx :
                            /\ before[i].active = 1
                            /\ before[i].ul = sbd_in'.ul
                            /\ before[i].msgno + 1 = p.msgno }
          IN  IF match # {}
              THEN \E i \in match :
                      LET all  == before[i].data \o p.sbd_data
                          data == SubSeq(all, 1, Min(Len(all), 1024))
                      IN  /\ sbd_multi'[i].data = data
                          /\ sbd_multi'[i].msgno = p.msgno
                          /\ \A j \in MultiIdx \ {i} : sbd_multi'[j] = before[j]
                          /\ IF p.msgno = before[i].msgcnt
                             THEN /\ Len(sbd_dlv') = 1
                                  /\ sbd_dlv'[1].data = data
                                  /\ sbd_multi'[i].active = 0
                             ELSE /\ sbd_dlv' = <<>>
                                  /\ sbd_multi'[i].active = 1
              ELSE sbd_dlv' = <<>> /\ sbd_multi' = before
      ]_vars

\* a packet parsed with msgcnt = 3 and msgno = 2 arrived while slot 0 waited
\* for fragment 2 of the same direction: slot 0 is as it was and the packet
\* sits in slot 1
C9_Witness ==
    /\ op = "extract"
    /\ sbd_n = 2
    /\ SbdParse(sbd_in.data, sbd_in.ul).msgno = 2
    /\ SbdParse(sbd_in.data, sbd_in.ul).msgcnt = 3
    /\ sbd_multi[0].active = 1
    /\ sbd_multi[0].ul = sbd_in.ul
    /\ sbd_multi[0].msgno = 1
    /\ sbd_multi[0].timestamp = sbd_in.timestamp
    /\ sbd_multi[1].active = 1
    /\ sbd_multi[1].msgno = 2
    /\ sbd_multi[1].data = SbdParse(sbd_in.data, sbd_in.ul).sbd_data
    /\ sbd_dlv = <<>>

----------------------------------------------------------------------------
(* Properties of the ACARS parser *)

\* the message handed to acars_parse taken apart as the design describes it:
\* the marker 0x01, then an optional 8-byte header starting with 0x03, the
\* body, and an optional suffix of two CRC bytes and 0x7f
MsgIsAcars ==
    Len(acars_in.data) > 2 /\ acars_in.data[1] = 1

MsgInner ==
    SubSeq(acars_in.data, 2, Len(acars_in.data))

MsgHasCrc ==
    Len(MsgInner) >= 3 /\ MsgInner[Len(MsgInner)] = 127

MsgCrcBytes ==
    SubSeq(MsgInner, Len(MsgInner) - 2, Len(MsgInner) - 1)

MsgNoSuffix ==
    IF MsgHasCrc THEN SubSeq(MsgInner, 1, Len(MsgInner) - 3) ELSE MsgInner

MsgBody ==
    IF Len(MsgNoSuffix) >= 8 /\ MsgNoSuffix[1] = 3
    THEN SubSeq(MsgNoSuffix, 9, Len(MsgNoSuffix))
    ELSE MsgNoSuffix

\* the CRC-16/Kermit over the body and the two CRC bytes is not zero
MsgCrcMismatch ==
    MsgHasCrc /\ crc16_kermit(MsgBody \o MsgCrcBytes) # 0

\* some body byte has an even number of one bits
MsgParityFailed ==
    \E i \in 1 .. Len(MsgBody) :
        Cardinality({ k \in 0 .. 7 : (MsgBody[i] \div Pow2(k)) % 2 = 1 }) % 2 = 0

\* C10 (as stated): a message of at least 13 body bytes is CRC-failed only
\* if it has the CRC suffix and the CRC does not come out as zero; in JSON
\* mode it is printed iff it has neither a CRC nor a parity failure, with
\* "errors":0; in text mode it is printed, with the tag ERRORS iff it has a
\* failure.
C10_AsStated ==
    (op = "acars" /\ MsgIsAcars /\ Len(MsgBody) >= 13) =>
        IF acars_json = 1
        THEN /\ printed # <<>> <=> ~ (MsgCrcMismatch \/ MsgParityFailed)
             /\ printed # <<>> => printed[1].errors = 0
        ELSE /\ Len(printed) = 1
             /\ printed[1].tag <=> (MsgCrcMismatch \/ MsgParityFailed)

\* C10 (amended): a message is CRC-failed if it has no CRC suffix, or has
\* one and the CRC-16/Kermit over body plus CRC bytes is not zero, and
\* parity-failed if some body byte has even parity.  Nothing is printed for
\* a message without the marker or with fewer than 13 body bytes, in either
\* mode.  Otherwise JSON mode prints the message iff it has neither failure
\* (with "errors":0), and text mode prints it always, with the tag ERRORS
\* iff it has a failure.
C10_ErrorPolicy ==
    op = "acars" =>
        IF ~ MsgIsAcars THEN printed = <<>>
        ELSE IF Len(MsgBody) < 13 THEN printed = <<>>
        ELSE IF acars_json = 1
        THEN /\ printed # <<>> <=>
                  ~ (~ MsgHasCrc \/ MsgCrcMismatch \/ MsgParityFailed)
             /\ printed # <<>> =>
                  (Len(printed) = 1 /\ printed[1].fmt = "json"
                     /\ printed[1].errors = 0)
        ELSE /\ Len(printed) = 1
             /\ printed[1].fmt = "text"
             /\ printed[1].tag <=>
                  (~ MsgHasCrc \/ MsgCrcMismatch \/ MsgParityFailed)

\* in JSON mode a message of 30 body bytes with good parity and no CRC
\* suffix was not printed
C10_Witness ==
    /\ op = "acars"
    /\ acars_json = 1
    /\ MsgIsAcars
    /\ ~ MsgHasCrc
    /\ ~ MsgParityFailed
    /\ Len(MsgBody) = 30
    /\ printed = <<>>

----------------------------------------------------------------------------
(* Properties of the voice clusterer and the call archive *)

\* the frames of every call, active or archived
VoiceCalls ==
    { active_calls[i].frames : i \in { j \in ActiveIdx :
                                          active_calls[j].active # 0 } }
    \cup { call_frames[i] : i \in { j \in CallIdx : calls[j].valid # 0 } }

\* C11 (as stated): no call, active or archived, holds two frames whose
\* frequencies differ by more than 20 kHz or whose timestamps differ by more
\* than 20 s.
C11_AsStated ==
    \A frames \in VoiceCalls :
        \A i, j \in 1 .. Len(frames) :
            /\ Abs(frames[i].frequency - frames[j].frequency)
                  <= VOICE_CLUSTER_FREQ
            /\ Abs(frames[i].timestamp - frames[j].timestamp)
                  <= VOICE_CLUSTER_TIME

RECURSIVE SumFreq(_, _)
SumFreq(frames, k) ==
    IF k = 0 THEN 0 ELSE frames[k].frequency + SumFreq(frames, k - 1)

\* C11 (amended): in every call, active or archived, each frame after the
\* first is within 20 kHz of the mean frequency of the frames before it and
\* is not earlier than, and at most 20 s later than, the frame before it.
C11_ClusterBoundaries ==
    \A frames \in VoiceCalls :
        \A k \in 2 .. Len(frames) :
            /\ Abs(frames[k].frequency * (k - 1) - SumFreq(frames, k - 1))
                  <= VOICE_CLUSTER_FREQ * (k - 1)
            /\ frames[k].timestamp >= frames[k - 1].timestamp
            /\ frames[k].timestamp - frames[k - 1].timestamp
                  <= VOICE_CLUSTER_TIME

\* an archived call holds frames 30 kHz and 20.05 s apart
C11_Witness ==
    /\ calls[0].valid = 1
    /\ Len(call_frames[0]) = 3
    /\ call_frames[0][3].frequency - call_frames[0][1].frequency = 30000
    /\ call_frames[0][3].timestamp - call_frames[0][1].timestamp = 20050

\* the active calls that satisfy both conditions of the cluster rule for the
\* frame: mean frequency within 20 kHz, last frame at most 20 s before
VoiceEligible(active, frame) ==
    { i \in ActiveIdx :
        /\ active[i].active # 0
        /\ active[i].n_frames > 0
        /\ Abs(frame.frequency * active[i].n_frames - active[i].freq_sum)
              <= VOICE_CLUSTER_FREQ * active[i].n_frames
        /\ frame.timestamp >= active[i].last_time
        /\ frame.timestamp - active[i].last_time <= VOICE_CLUSTER_TIME }

\* C12 (as stated): voice_decode_add_frame adds the frame to an active call
\* that satisfies both conditions whenever there is one, and opens a new
\* call, which then holds the frame alone, only when there is none.
C12_AsStated ==
    [][ (voc'.op = "add" /\ voc'.idx >= 0) =>
          LET frame    == voc'.frame
              eligible == VoiceEligible(active_calls, frame)
              call     == active_calls'[voc'.idx]
          IN  IF eligible # {}
              THEN /\ voc'.joined
                   /\ voc'.idx \in eligible
                   /\ call.frames
                        = Append(active_calls[voc'.idx].frames, frame)
              ELSE /\ ~ voc'.joined
                   /\ call.active = 1
                   /\ call.frames = <<frame>>
                   /\ call.first_time = frame.timestamp ]_vars

\* call 1 (one frame, 30 kHz, 21.000 s) satisfied both conditions for the
\* frame at 20 kHz, 21.050 s and is as it was; the frame opened a new call
\* in slot 0
C12_Witness ==
    /\ voc.op = "add"
    /\ voc.frame = VocFrame(21050, 20000, 2)
    /\ ~ voc.joined
    /\ voc.idx = 0
    /\ active_calls[0].frames = <<voc.frame>>
    /\ active_calls[1].active = 1
    /\ active_calls[1].frames = <<VocFrame(21000, 30000, 2)>>

\* C13: when 101 calls have been finalized into the archive,
\* voice_decode_call_count() is 100, the entry at index 0 has call_id 1 and
\* the entry at index 99 has call_id 100, and the PCM buffer of call 0 has
\* been freed: it is not allocated, no entry points to it, and it is the
\* one buffer of an archived call freed before voice_decode_shutdown.
C13_ArchiveEviction ==
    total_calls = VOICE_MAX_CALLS + 1 =>
        /\ voice_decode_call_count(call_count) = VOICE_MAX_CALLS
        /\ voice_decode_get_call(VoiceState, 0) # NoVoc
        /\ voice_decode_get_call(VoiceState, 0).call_id = 1
        /\ voice_decode_get_call(VoiceState, VOICE_MAX_CALLS - 1) # NoVoc
        /\ voice_decode_get_call(VoiceState, VOICE_MAX_CALLS - 1).call_id
              = VOICE_MAX_CALLS
        /\ \E fr \in heap.frees :
              /\ fr.owner = 0
              /\ fr.buf \notin heap.live
              /\ \A i \in CallIdx : calls[i].audio # fr.buf
        /\ voc.op # "shutdown" =>
              /\ { fr \in heap.frees : fr.owner >= 0 }
                    = { fr \in heap.frees : fr.owner = 0 }
              /\ Cardinality(heap.live) = VOICE_MAX_CALLS
        /\ ~ heap.twice

\* the 101st call has just been archived by the first frame of the call
\* after it, over the entry of call 0
C13_Witness ==
    /\ total_calls = VOICE_MAX_CALLS + 1
    /\ voc.op = "add"
    /\ call_head = 1
    /\ calls[0].call_id = VOICE_MAX_CALLS
    /\ calls[0].audio \in heap.live
    /\ Cardinality(heap.frees) >= 1

\* C14: in every state, for 0 <= i < call_count voice_decode_get_call(i)
\* returns the archived call with call_id total_calls - call_count + i, and
\* for an index below 0 or from call_count on it returns NULL; call_count is
\* min(total_calls, 100) and no step makes it smaller.
C14_AgeOrderedIndex ==
    /\ [](/\ \A i \in 0 .. (call_count - 1) :
               /\ voice_decode_get_call(VoiceState, i) # NoVoc
               /\ voice_decode_get_call(VoiceState, i).call_id
                     = total_calls - call_count + i
               /\ voice_decode_get_call(VoiceState, i).valid = 1
          /\ \A i \in {-2, -1} \cup (call_count .. (VOICE_MAX_CALLS + 1)) :
               voice_decode_get_call(VoiceState, i) = NoVoc
          /\ call_count = Min(total_calls, VOICE_MAX_CALLS))
    /\ [][call_count' >= call_count]_vars

\* the ring has wrapped: 102 calls were archived and index 0 is call 2, in
\* entry 2 of the ring
C14_Witness ==
    /\ total_calls = VOICE_MAX_CALLS + 2
    /\ call_count = VOICE_MAX_CALLS
    /\ call_head = 2
    /\ voice_decode_get_call(VoiceState, 0) = calls[2]
    /\ calls[2].call_id = 2
    /\ calls[1].call_id = VOICE_MAX_CALLS + 1

\* C16: between the calls of the voice functions every allocated PCM buffer
\* is pointed to by exactly one ring entry and every other buffer that
\* malloc returned has been freed; no buffer is freed twice; a buffer that
\* a ring entry pointed to is freed with voice_lock held, and before
\* voice_decode_shutdown only when its entry is overwritten; after
\* voice_decode_shutdown no buffer is allocated.
C16_PcmOwnership ==
    /\ ~ heap.twice
    /\ \A a, b \in heap.frees : a.buf = b.buf => a = b
    /\ heap.live = { calls[i].audio : i \in { j \in CallIdx :
                                                calls[j].audio # 0 } }
    /\ \A i, j \in CallIdx :
          (i # j /\ calls[i].audio # 0) => calls[i].audio # calls[j].audio
    /\ 1 .. heap.bufs = heap.live \cup { fr.buf : fr \in heap.frees }
    /\ \A fr \in heap.frees : fr.owner >= 0 => fr.locked
    /\ voc.op # "shutdown" =>
          \A fr \in heap.frees : fr.owner < total_calls - call_count
    /\ voc.op = "shutdown" => heap.live = {}

\* after voice_decode_shutdown: a buffer was freed for a discarded call, one
\* when the entry of call 0 was overwritten and the others in the shutdown
C16_Witness ==
    /\ voc.op = "shutdown"
    /\ total_calls = VOICE_MAX_CALLS + 1
    /\ heap.live = {}
    /\ \E fr \in heap.frees : fr.owner = -1 /\ ~ fr.locked
    /\ \A c \in 0 .. VOICE_MAX_CALLS :
          \E fr \in heap.frees : fr.owner = c /\ fr.locked
    /\ Cardinality(heap.frees) = heap.bufs

----------------------------------------------------------------------------
(* Properties of the voice statics under two threads, on SpecVoiceThreads *)

\* the statics the mutex is said to cover
VoiceGuarded ==
    {"calls", "call_head", "call_count", "active_calls", "total_calls",
     "total_frames"}

\* C15: every read or write of the archive ring (calls, call_head,
\* call_count), of the active-call table and of the two running totals is
\* performed by a thread that holds voice_lock.
C15_AsStated ==
    \A a \in vthr.acc : a.var \in VoiceGuarded => a.locked

\* voice_decode_total_calls returned on the query thread while the
\* demodulation thread holds voice_lock inside finalize_call, before its
\* total_calls++ of line 155
C15_Witness ==
    /\ vthr.demod = "store"
    /\ voice_lock = "demod"
    /\ vthr.plan.total_calls = total_calls + 1
    /\ vthr.qop = [fn |-> "total_calls", index |-> 0]
    /\ \E a \in vthr.acc :
          a.thread = "query" /\ a.var = "total_calls" /\ ~ a.locked

----------------------------------------------------------------------------
(* Properties of the slot table when it runs full, on SpecSlots *)

\* the slot the burst of a new message is to take: the lowest-index inactive
\* slot, or with all slots active one whose last_timestamp is the smallest
SlotToTake(ctx, i) ==
    IF \E j \in SlotIdx : ~ ctx[j].active
    THEN ~ ctx[i].active /\ \A j \in 0 .. (i - 1) : ctx[j].active
    ELSE \A j \in SlotIdx : ctx[i].last_timestamp <= ctx[j].last_timestamp

\* C17: when ida_reassemble is called with a CRC-good burst (crc_ok, which
\* ida_decode sets only for da_len > 0) with da_ctr = 0 and cont = 1 that
\* matches no active slot, the burst is stored in the lowest-index inactive
\* slot, or with all 16 slots active in the slot with the smallest
\* last_timestamp; the callback is not invoked; afterwards the slot is
\* active with the burst's direction, frequency, timestamp, last_ctr = 0
\* and data = payload[0..da_len), every other slot is unchanged, and the
\* call returns (0).
C17_SlotExhaustion ==
    [][ ( /\ op' \in {"open", "continue"}
          /\ last'.crc_ok /\ last'.da_len > 0
          /\ last'.da_ctr = 0 /\ last'.cont
          /\ \A i \in SlotIdx : ~ SlotMatches(slots[i], last') )
        => /\ \E i \in SlotIdx :
                 /\ SlotToTake(slots, i)
                 /\ slots' =
                       [slots EXCEPT ![i] =
                          [active |-> TRUE, direction |-> last'.direction,
                           frequency |-> last'.frequency,
                           last_timestamp |-> last'.timestamp,
                           last_ctr |-> 0,
                           data |-> SubSeq(last'.payload, 1, last'.da_len),
                           data_len |-> last'.da_len]]
           /\ cbs' = <<>>
           /\ ret' = 0 ]_vars

\* all 16 slots were active, the oldest of them was not slot 0, and the
\* burst has taken its place; no callback was made
C17_Witness ==
    /\ op = "open"
    /\ last.crc_ok /\ last.da_ctr = 0 /\ last.cont
    /\ \A i \in SlotIdx : pending.table[i].active
    /\ cbs = <<>>
    /\ \E i \in SlotIdx \ {0} :
          /\ \A j \in SlotIdx \ {i} :
                /\ pending.table[i].last_timestamp
                      < pending.table[j].last_timestamp
                /\ slots[j] = pending.table[j]
          /\ slots[i].frequency = last.frequency
          /\ slots[i].frequency # pending.table[i].frequency
          /\ slots[i].last_timestamp = last.timestamp
          /\ slots[i].data_len = GoodLen

\* a table with a hole in the middle: the burst took the lowest-index
\* inactive slot although slots after it are active
C17_WitnessHole ==
    /\ op = "open"
    /\ last.crc_ok /\ last.da_ctr = 0 /\ last.cont
    /\ \E i \in SlotIdx \ {0, IDA_MAX_REASSEMBLY - 1} :
          /\ ~ pending.table[i].active
          /\ \A j \in SlotIdx \ {i} : pending.table[j].active
          /\ slots[i].active /\ slots[i].frequency = last.frequency

----------------------------------------------------------------------------
(* Properties of the SBD timeout, on SpecSbd *)

\* slot s is active and its last fragment is more than 5 s older than the
\* packet
SbdStale(s, pkt) ==
    s.active # 0 /\ pkt.timestamp > s.timestamp + SBD_TIMEOUT

\* the packet is a continuation: none of the first three cases of the
\* dispatch takes it
SbdIsContinuation(p) ==
    /\ p.ok
    /\ p.msgno > 1
    /\ ~ (p.msgcnt > 1)

\* C18: when sbd_extract dispatches a packet with timestamp t, every active
\* multi-packet slot whose last fragment is more than 5 s before t has been
\* deactivated first: the slot is left inactive with its bytes as they
\* were, or it is taken as a free slot by the packet when the packet starts
\* a message; a continuation packet whose matching slots are all that old
\* is appended to no slot and delivers nothing.  The decision is made from
\* the timestamp of the packet and the timestamps kept in the slots.
C18_SbdTimeout ==
    [][ (op' = "extract" /\ SbdParse(sbd_in'.data, sbd_in'.ul).ok)
        => LET pkt == sbd_in'
               p   == SbdParse(pkt.data, pkt.ul)
           IN  /\ \A i \in MultiIdx :
                     SbdStale(sbd_multi[i], pkt)
                     => \/ sbd_multi'[i] = [sbd_multi[i] EXCEPT !.active = 0]
                        \/ /\ p.msgno # 0 /\ p.msgcnt > 1
                           /\ sbd_multi'[i].active = 1
                           /\ sbd_multi'[i].timestamp = pkt.timestamp
                           /\ sbd_multi'[i].msgno = p.msgno
                           /\ sbd_multi'[i].data
                                 = SubSeq(p.sbd_data, 1,
                                          Min(Len(p.sbd_data), SBD_MAX_DATA))
               /\ ( /\ SbdIsContinuation(p)
                    /\ \A i \in MultiIdx :
                          SbdSlotMatches(sbd_multi[i], p, pkt)
                          => SbdStale(sbd_multi[i], pkt) )
                  => /\ sbd_dlv' = <<>>
                     /\ \A i \in MultiIdx :
                           /\ sbd_multi'[i].data = sbd_multi[i].data
                           /\ sbd_multi'[i].msgno = sbd_multi[i].msgno
                           /\ sbd_multi'[i].timestamp = sbd_multi[i].timestamp
               /\ \A i \in MultiIdx :
                     sbd_multi'[i].active # 0
                     => ~ (pkt.timestamp > sbd_multi'[i].timestamp + SBD_TIMEOUT)
      ]_vars

\* the first packet of a three-packet message came at 1.000 s and its
\* continuation at 6.001 s: the slot is inactive with the first packet's
\* bytes alone and nothing was delivered
C18_Witness ==
    /\ op = "extract"
    /\ sbd_n = 2
    /\ sbd_in.timestamp = 6001
    /\ SbdIsContinuation(SbdParse(sbd_in.data, sbd_in.ul))
    /\ sbd_multi[0].active = 0
    /\ sbd_multi[0].timestamp = 1000
    /\ sbd_multi[0].msgno = 1
    /\ sbd_multi[0].msgcnt = 3
    /\ sbd_multi[0].ul = sbd_in.ul
    /\ sbd_multi[0].data = SbdBytes(65, SbdLen)
    /\ sbd_dlv = <<>>

----------------------------------------------------------------------------
(* Properties of the Chase decoder, on SpecChase *)

IsPrefix(a, b) ==
    Len(a) <= Len(b) /\ SubSeq(b, 1, Len(a)) = a

\* every code word of the payload that chase_bch_da decodes without LLRs it
\* decodes with the LLRs, to the same 20 data bits
ChaseChunksMonotone ==
    \A k \in 1 .. 10 :
       LET w    == ChaseWords(dgen)[k]
           hard == chase_bch_da(w, NoLlr)
           soft == chase_bch_da(w, ChaseWordLlrs(dgen)[k])
       IN  hard.ret >= 0 => soft.ret >= 0 /\ soft.out_data = hard.out_data

\* the two calls read the same value from the unwritten entries: the stream
\* with LLRs has the stream without LLRs as a prefix
ChaseSameReadPrefix ==
    (op = "descrambled" /\ djunk.soft.bit = djunk.hard.bit)
    => IsPrefix(dburst.hard.bch_stream, dburst.soft.bch_stream)

\* C19: for any payload bits and any LLR sequence, the bit stream produced
\* by descramble_payload with the LLRs has the stream produced without LLRs
\* as a prefix: it is never shorter and never differs on the common part.
C19_AsStated ==
    op = "descrambled"
    => IsPrefix(dburst.hard.bch_stream, dburst.soft.bch_stream)

\* a last block of 33 symbols whose last word has two flipped bits and low
\* LLRs on five bits that are right: the call without LLRs read the bit of
\* the code word from the unwritten entry and corrected the word, the call
\* with LLRs read the other bit and the Chase search returned another word
C19_Witness ==
    /\ op = "descrambled"
    /\ dgen.word = 10
    /\ dgen.gen.remain = 66
    /\ dgen.gen.blk_err = {4, 9}
    /\ dgen.gen.llr = "far"
    /\ djunk.soft.bit # djunk.hard.bit
    /\ dburst.hard.bch_len = 200
    /\ dburst.soft.bch_len = 200
    /\ dburst.hard.bch_stream
          = IdaStream(dgen.gen.cont, dgen.gen.da_ctr, dgen.gen.da_len,
                      dgen.gen.zero1, dgen.gen.crc_good, dgen.gen.tag)
    /\ SubSeq(dburst.soft.bch_stream, 1, 180)
          = SubSeq(dburst.hard.bch_stream, 1, 180)
    /\ SubSeq(dburst.soft.bch_stream, 181, 200)
          # SubSeq(dburst.hard.bch_stream, 181, 200)

----------------------------------------------------------------------------
(* Properties of the LCW decoder, on SpecLcw *)

\* decode_lcw returned ok with the tuple that was encoded
LcwRecovered ==
    /\ dburst.ok
    /\ dburst.ft = dgen.ft
    /\ dburst.lcw_ft = dgen.lcw_ft
    /\ dburst.lcw_code = dgen.lcw_code
    /\ dburst.lcw3_val = dgen.lcw3_val

\* the bit of the lcw2 code word that is not sent
Lcw2Unsent(g) ==
    Lcw2Word(g.lcw_ft, g.lcw_code)[14]

\* what decode_lcw does recover: the tuple without flips, with one flipped
\* bit in lcw1 or lcw3, and with one flipped bit in lcw2 when the unsent
\* bit of the code word is 0
LcwRoundTrip ==
    ( /\ op = "decoded"
      /\ Cardinality(dgen.err) <= 1
      /\ (dgen.err \subseteq Lcw2Pos /\ dgen.err # {})
            => Lcw2Unsent(dgen) = 0 )
    => LcwRecovered

\* C20: decode_lcw returns ok with the encoded tuple (ft, lcw_ft, lcw_code,
\* lcw3_val) when no bit is flipped, after any single-bit flip inside the
\* lcw1 or lcw2 code word, and after any flip of one or two bits inside the
\* lcw3 code word.
C20_AsStated ==
    op = "decoded" => LcwRecovered

\* two flipped bits of lcw3: decode_lcw returned ok with another lcw3_val
C20_Witness ==
    /\ op = "decoded"
    /\ Cardinality(dgen.err) = 2
    /\ dgen.err \subseteq Lcw3Pos
    /\ dburst.ok
    /\ dburst.ft = dgen.ft
    /\ dburst.lcw_ft = dgen.lcw_ft
    /\ dburst.lcw_code = dgen.lcw_code
    /\ dburst.lcw3_val # dgen.lcw3_val

\* one flipped bit of lcw2 when the unsent bit is 1: decode_lcw does not
\* return the tuple
Lcw2FlipLost ==
    /\ op = "decoded"
    /\ Cardinality(dgen.err) = 1
    /\ dgen.err \subseteq Lcw2Pos
    /\ Lcw2Unsent(dgen) = 1
    /\ ~ LcwRecovered

----------------------------------------------------------------------------
(* Properties of chase_bch_da, on SpecBch *)

\* the call returned the data word that was encoded
BchRecovered ==
    dburst.ret >= 0 /\ dburst.out_data = uint_to_bits(dgen.data, BCH_DA_DATA)

\* up to two flipped bits: the data word comes back, and the return value
\* is the number of flipped bits, with LLRs or without
BchWithinRadius ==
    (op = "decoded" /\ Cardinality(dgen.err) <= 2)
    => BchRecovered /\ dburst.ret = Cardinality(dgen.err)

\* three flipped bits and no LLRs: the call returns -1
BchThreeHardFails ==
    (op = "decoded" /\ Cardinality(dgen.err) = 3 /\ dgen.weak = -2)
    => dburst.ret = -1

\* C21: for any 20-bit data word, the 31-bit code word of generator 3545
\* with 0, 1 or 2 flipped bits is decoded by chase_bch_da to the data word;
\* with 3 flipped bits chase_bch_da, for any LLRs and for none, returns -1
\* or the data word, never another data word.
C21_AsStated ==
    op = "decoded"
    => \/ BchRecovered
       \/ Cardinality(dgen.err) = 3 /\ dburst.ret = -1

\* bits 0, 1 and 2 flipped and the lowest LLR on the first bit of the block:
\* the Chase search flipped that bit, found a syndrome of the table and
\* returned another data word with two errors corrected
C21_Witness ==
    /\ op = "decoded"
    /\ dgen.data = 0
    /\ dgen.err = {0, 1, 2}
    /\ dgen.weak = 0
    /\ dburst.ret = 2
    /\ dburst.fixed = 1
    /\ dburst.out_data = uint_to_bits(524290, BCH_DA_DATA)

----------------------------------------------------------------------------
(* Properties of the CRC of ida_decode, on SpecDecode *)

\* the MSB-first bytes of a bit string whose length is a multiple of 8
PackBytes(bits) ==
    Array([i \in 1 .. (Len(bits) \div 8) |->
              bits_to_uint(SubSeq(bits, 8 * (i - 1) + 1, 8 * i), 8)])

\* bits 180..195 of the stream hold the CRC-16-CCITT-FALSE of bits 0..19,
\* twelve zero bits and bits 20..179
StoredCrcRight(bs) ==
    bits_to_uint(SubSeq(bs, 181, 196), 16)
       = crc_ccitt(PackBytes(SubSeq(bs, 1, 20) \o [i \in 1 .. 12 |-> 0]
                             \o SubSeq(bs, 21, 180)))

\* the bits the code feeds to the CRC after the stored CRC: 196 .. end - 5
CrcTrailing(bs) ==
    SubSeq(bs, 197, Len(bs) - 4)

\* a burst of ida_decode with da_len > 0 whose stream holds the right CRC
CrcCase ==
    /\ op = "decode"
    /\ dret = 1
    /\ dburst.da_len > 0
    /\ Len(DecodedStream) % 20 = 0
    /\ StoredCrcRight(DecodedStream)

\* what the code does: the CRC is 0 when every bit between the stored CRC
\* and the last four bits of the stream is 0, as in a stream of 200 bits
CrcZeroWithoutTrailing ==
    (CrcCase /\ \A i \in DOMAIN CrcTrailing(DecodedStream) :
                    CrcTrailing(DecodedStream)[i] = 0)
    => dburst.computed_crc = 0 /\ dburst.crc_ok = 1

\* C22: for any stream ida_decode can produce (length a multiple of 20 and
\* at least 196, da_len > 0) whose bits 180..195 hold the CRC-16-CCITT-FALSE
\* of bits 0..19, twelve zero bits and bits 20..179, the CRC that ida_decode
\* computes is 0 and crc_ok is set.
C22_AsStated ==
    CrcCase => dburst.computed_crc = 0 /\ dburst.crc_ok = 1

\* a frame of three full blocks and a last block of 64 bits whose words
\* after the tenth carry a data word that is not zero: the stream of 280
\* bits holds the right CRC at bits 180..195 and the burst has crc_ok = 0
C22_Witness ==
    /\ CrcCase
    /\ dgen.crc_good
    /\ dgen.nfull = 3
    /\ dgen.fill = 1
    /\ Len(DecodedStream) = 280
    /\ dburst.stored_crc = bits_to_uint(SubSeq(DecodedStream, 181, 196), 16)
    /\ dburst.computed_crc # 0
    /\ dburst.crc_ok = 0

----------------------------------------------------------------------------
(* Properties of the Kermit CRC, on SpecKermit *)

\* the message ends with the CRC-16/Kermit of its body, low byte first,
\* and 0x7f
MsgCarriesCrc ==
    /\ MsgIsAcars
    /\ MsgHasCrc
    /\ MsgCrcBytes = << crc16_kermit(MsgBody) % 256,
                        crc16_kermit(MsgBody) \div 256 >>

\* the CRC check of acars_parse on the message
MsgCrcErrors ==
    AcarsCrcErrors(AcarsSplit(acars_in.data).has_crc,
                   AcarsSplit(acars_in.data).body,
                   AcarsSplit(acars_in.data).csum)

KermitBodyTakenAsHeader ==
    /\ op = "acars"
    /\ ~ acars_in.gen.hdr
    /\ Len(acars_in.gen.body) = 40
    /\ acars_in.gen.body[1] = 3
    /\ MsgBody = SubSeq(acars_in.gen.body, 9, 40)
    /\ ~ MsgCarriesCrc
    /\ MsgCrcErrors = 1

----------------------------------------------------------------------------
(* Properties of the IDA line, on SpecDump *)

\* the 20 payload bytes ida_decode decoded from the stream (lines 595-601)
DecodedPayload ==
    IdaPayload(DecodedStream)

\* the burst holds the 20 bytes dp
BurstRetains(dp) ==
    \A i \in 0 .. (IDA_PAYLOAD_BYTES - 1) : PayloadAt(dburst, i) = dp[i + 1]

\* the line shows the first n bytes of dp with dots between them
LinePrintsFirst(dp, n) ==
    /\ printed[1].hex.bytes = SubSeq(dp, 1, n)
    /\ printed[1].hex.seps = [i \in 1 .. (n - 1) |-> "."]

\* the line shows the 20 bytes dp with '!' before byte da_len
LinePrintsMarked(dp) ==
    /\ printed[1].hex.bytes = dp
    /\ printed[1].hex.seps
          = [i \in 1 .. 19 |-> IF i = dburst.da_len THEN "!" ELSE "."]

\* what the code does: the burst holds the first da_len decoded bytes and
\* zeros after them, and the line of a burst with da_len > 0 shows exactly
\* those da_len bytes whatever was decoded after them
DumpShowsLenBytes ==
    (op = "print" /\ dburst.da_len > 0) =>
        \E dp \in {DecodedPayload} :
            /\ \A i \in 0 .. (IDA_PAYLOAD_BYTES - 1) :
                  PayloadAt(dburst, i) = IF i < dburst.da_len
                                         THEN dp[i + 1] ELSE 0
            /\ LinePrintsFirst(dp, dburst.da_len)

\* C24: for a burst with 0 < da_len < 20 the burst retains all 20 decoded
\* payload bytes, and the line prints exactly da_len bytes iff every decoded
\* byte at positions da_len..19 is zero, and otherwise all 20 bytes with '!'
\* before byte da_len and '.' between all other bytes; for da_len = 0 all 20
\* decoded bytes are printed and the CRC section is "  ---   ".
C24_AsStated ==
    op = "print" =>
        \E dp \in {DecodedPayload} :
            /\ (dburst.da_len > 0 /\ dburst.da_len < 20) =>
                  /\ BurstRetains(dp)
                  /\ IF \A i \in dburst.da_len .. 19 : dp[i + 1] = 0
                     THEN LinePrintsFirst(dp, dburst.da_len)
                     ELSE LinePrintsMarked(dp)
            /\ dburst.da_len = 0 =>
                  /\ LinePrintsFirst(dp, IDA_PAYLOAD_BYTES)
                  /\ printed[1].crc.text = "  ---   "

\* a burst with da_len = 5 whose decoded bytes 5..19 are all set: the burst
\* holds five bytes and the line shows five bytes and no '!'
C24_Witness ==
    /\ op = "print"
    /\ dgen.tail = "set"
    /\ dburst.da_len = 5
    /\ \E dp \in {DecodedPayload} : \A i \in 5 .. 19 : dp[i + 1] # 0
    /\ dburst.payload_len = 5
    /\ Len(dburst.payload) = 5
    /\ Len(printed[1].hex.bytes) = 5
    /\ \A i \in 1 .. 4 : printed[1].hex.seps[i] = "."

\* a burst with da_len = 0: the line shows the 20 decoded bytes and no CRC
DumpLenZero ==
    (op = "print" /\ dburst.da_len = 0) =>
        \E dp \in {DecodedPayload} :
            /\ BurstRetains(dp)
            /\ LinePrintsFirst(dp, IDA_PAYLOAD_BYTES)
            /\ printed[1].crc.text = "  ---   "

\* the burst keeps min(bch_len, 256) bits of the stream (lines 656-658), and
\* the trailing bits of a stream of at most 256 bits are its bits from 196 on
DumpStreamKept ==
    (op = "print") =>
        /\ Len(dburst.bch_stream)
              = (IF dburst.bch_len < IDA_BCH_KEEP THEN dburst.bch_len
                 ELSE IDA_BCH_KEEP)
        /\ dburst.bch_len <= IDA_BCH_KEEP =>
              printed[1].trailing
                 = (IF dburst.bch_len > 196
                    THEN SubSeq(dburst.bch_stream, 197, dburst.bch_len)
                    ELSE <<0, 0, 0, 0>>)

\* C25: every burst produced by ida_decode has bch_len <= 256, the capacity
\* of bch_stream, so the printer's reads of bch_stream[i] for i < bch_len
\* stay inside the stored bitstream.
C25_AsStated ==
    (op \in {"decode", "print"} /\ dret = 1) =>
        /\ dburst.bch_len <= IDA_BCH_KEEP
        /\ dburst.bch_len <= Len(dburst.bch_stream)

\* a burst of a long frame: bch_len exceeds 256, 256 bits are stored, and
\* the printer's trailing bits from index 256 on come from outside bch_stream
C25_Witness ==
    /\ op = "print"
    /\ dret = 1
    /\ dburst.bch_len > IDA_BCH_KEEP
    /\ Len(dburst.bch_stream) = IDA_BCH_KEEP
    /\ Len(printed[1].trailing) = dburst.bch_len - 196
    /\ djunk.bit = 244
    /\ printed[1].trailing[IDA_BCH_KEEP - 196 + 1] = 244
    /\ printed[1].trailing[IDA_BCH_KEEP - 196] = dburst.bch_stream[IDA_BCH_KEEP]

----------------------------------------------------------------------------
(* Properties of the capture threads, on SpecCapture and SpecCaptureFair *)

\* once running is false the thread leaves its loop (or the process ends)
CapShutdownExits ==
    (running = 0) ~> (cap_pc \in CapOutOfLoop)

\* the buffer of an iteration that is over was pushed once or freed once
CapSettled ==
    (cap_buf.alloc /\ cap_pc \notin {"read", "check"}) =>
        cap_buf.pushed + cap_buf.freed = 1

\* a buffer whose running check read false was freed and not pushed
CapFalseFreed ==
    (cap_buf.alloc /\ cap_buf.seen = 0) =>
        (cap_buf.freed = 1 /\ cap_buf.pushed = 0)

\* no buffer is pushed or freed twice, or pushed and freed
CapNeverBoth ==
    cap_buf.pushed + cap_buf.freed <= 1

\* every buffer is settled unless the USRP thread ended the process in errx
CapSettledUnlessAborted ==
    ~ (cap_dev = "usrp" /\ cap_pc = "exited") => CapSettled

\* C26: once running is false each capture loop, its device call returning,
\* eventually exits; every allocated sample buffer is pushed exactly once or
\* freed exactly once, never both and never neither; and a buffer whose
\* running check reads false is freed rather than pushed.
C26_AsStated ==
    /\ CapShutdownExits
    /\ [](CapSettled /\ CapNeverBoth /\ CapFalseFreed)

\* the USRP thread has ended the process from errx with the buffer of the
\* iteration neither pushed nor freed
C26_Witness ==
    /\ cap_dev = "usrp"
    /\ cap_pc = "exited"
    /\ cap_buf.alloc
    /\ cap_buf.held
    /\ cap_buf.pushed = 0
    /\ cap_buf.freed = 0

----------------------------------------------------------------------------
(* Properties of the slot matching of ida_reassemble, on Spec *)

\* the five conditions of the matching rule for slot s and burst b
FiveConditions(s, b) ==
    /\ s.direction = b.direction
    /\ Abs(s.frequency - b.frequency) <= 260
    /\ b.timestamp >= s.last_timestamp
    /\ b.timestamp - s.last_timestamp <= 280
    /\ (s.last_ctr + 1) % 8 = b.da_ctr

\* the active slots of the table that satisfy the five conditions
MatchingSlots(table, b) ==
    {i \in SlotIdx : table[i].active /\ FiveConditions(table[i], b)}

\* slot t is slot s with burst b appended: the burst's timestamp and counter
\* are recorded and the data is s.data followed by the payload bytes (or
\* s.data, when the payload does not fit)
IsAppended(s, t, b) ==
    /\ t.last_timestamp = b.timestamp
    /\ t.last_ctr = b.da_ctr
    /\ t.direction = s.direction
    /\ t.frequency = s.frequency
    /\ t.active = b.cont
    /\ \/ /\ t.data = s.data \o SubSeq(b.payload, 1, b.da_len)
          /\ t.data_len = s.data_len + b.da_len
       \/ /\ s.data_len + b.da_len > IDA_DATA_SIZE
          /\ t.data = s.data
          /\ t.data_len = s.data_len

\* C27: ida_reassemble appends a CRC-good burst B to an active slot S only
\* if S.direction = B.direction, |S.frequency - B.frequency| <= 260 Hz,
\* B.timestamp >= S.last_timestamp, B.timestamp - S.last_timestamp <= 280 ms
\* and (S.last_ctr + 1) mod 8 = B.da_ctr; and whenever at least one active
\* slot satisfies all five, B is appended to the lowest-index such slot and
\* no other slot is modified.
C27_MatchingRule ==
    [][ (op' = "reassemble" /\ last'.crc_ok /\ last'.da_len > 0) =>
           \E M \in {MatchingSlots(slots, last')} :
              /\ \A i \in SlotIdx \ M :
                    \/ slots'[i] = slots[i]
                    \/ /\ M = {}
                       /\ slots'[i].data_len = last'.da_len
                       /\ slots'[i].last_ctr = 0
              /\ M # {} =>
                    \E k \in M :
                       /\ \A j \in M : k <= j
                       /\ IsAppended(slots[k], slots'[k], last')
                       /\ \A i \in SlotIdx \ {k} : slots'[i] = slots[i]
      ]_vars

\* the burst with da_ctr = 1 at time 280 met the five conditions of slot 0
\* and of slot 1 (260 Hz apart, both opened at time 0 or 280): it was
\* appended to slot 0, and slot 1 still holds its opening burst only
C27_Witness ==
    /\ op = "reassemble"
    /\ last.crc_ok /\ last.da_len > 0 /\ last.da_ctr = 1 /\ last.cont
    /\ slots[0].active
    /\ slots[0].data_len = 2 * GoodLen
    /\ slots[0].last_ctr = 1
    /\ slots[0].last_timestamp = last.timestamp
    /\ slots[1].active
    /\ slots[1].data_len = GoodLen
    /\ FiveConditions(slots[1], last)
    /\ slots[1].frequency # slots[0].frequency

----------------------------------------------------------------------------
(* Properties of ida_reassemble_flush, on Spec *)

\* the table after a flush at time now: the active slots last touched more
\* than 280 ms before now are inactive, every other slot is as it was
FlushedTable(table, now) ==
    [i \in SlotIdx |->
        IF table[i].active /\ table[i].last_timestamp + 280 < now
        THEN [table[i] EXCEPT !.active = FALSE]
        ELSE table[i]]

\* burst b continues the message of the inactive slot s
ContinuesFreed(s, b) ==
    /\ ~ s.active
    /\ s.data_len > 0
    /\ s.direction = b.direction
    /\ Abs(s.frequency - b.frequency) <= 260
    /\ b.timestamp >= s.last_timestamp
    /\ (s.last_ctr + 1) % 8 = b.da_ctr
    /\ b.da_ctr # 0

FlushKeepsAtLimit ==
    /\ op = "flush"
    /\ ncalls = 2
    /\ slots[0].active
    /\ slots[0].last_timestamp = 280

----------------------------------------------------------------------------
(* Properties of the single-burst message, on Spec *)

\* C29: a CRC-good burst with da_len > 0, da_ctr = 0 and cont = false that
\* matches no active slot makes the callback run at once, exactly once, with
\* the burst's payload[0..da_len), timestamp, frequency, direction and
\* magnitude, and no slot is allocated or modified.
C29_SingleBurst ==
    [][ ( /\ op' = "reassemble"
          /\ last'.crc_ok /\ last'.da_len > 0
          /\ last'.da_ctr = 0 /\ ~ last'.cont
          /\ MatchingSlots(slots, last') = {} ) =>
           /\ Len(cbs') = 1
           /\ cbs'[1].data = [i \in 1 .. last'.da_len |-> last'.payload[i]]
           /\ cbs'[1].len = last'.da_len
           /\ cbs'[1].timestamp = last'.timestamp
           /\ cbs'[1].frequency = last'.frequency
           /\ cbs'[1].direction = last'.direction
           /\ cbs'[1].magnitude = last'.magnitude
           /\ slots' = slots
      ]_vars

\* a single-burst message arrived while slot 0 held an open message of
\* another frequency: it was called back with its 7 bytes, and slot 0 still
\* holds its opening burst
C29_Witness ==
    /\ op = "reassemble"
    /\ last.crc_ok /\ last.da_len = GoodLen
    /\ last.da_ctr = 0 /\ ~ last.cont
    /\ MatchingSlots(slots, last) = {}
    /\ slots[0].active
    /\ slots[0].data_len = GoodLen
    /\ slots[0].frequency # last.frequency
    /\ \A i \in SlotIdx \ {0} : ~ slots[i].active
    /\ Len(cbs) = 1
    /\ cbs[1].len = GoodLen
    /\ Len(cbs[1].data) = GoodLen
    /\ ret = 1

----------------------------------------------------------------------------
(* Properties of the append to a matched slot, on SpecSeq *)

\* the first n entries of a sequence (all of it when it is shorter)
Leading(sq, n) ==
    SubSeq(sq, 1, IF Len(sq) < n THEN Len(sq) ELSE n)

\* the step handed ida_reassemble a CRC-good burst that matches slot k, the
\* lowest-index matching slot
AppendStep(k) ==
    /\ op' = "reassemble"
    /\ last'.crc_ok /\ last'.da_len > 0
    /\ k \in MatchingSlots(slots, last')
    /\ \A j \in MatchingSlots(slots, last') : k <= j

\* what every append does: the burst's timestamp and counter are recorded,
\* and on cont = false the callback gets the slot's data and the slot is
\* deactivated
AppendEpilogue(k) ==
    /\ slots'[k].last_timestamp = last'.timestamp
    /\ slots'[k].last_ctr = last'.da_ctr
    /\ IF last'.cont
       THEN slots'[k].active /\ cbs' = <<>>
       ELSE /\ ~ slots'[k].active
            /\ Len(cbs') = 1
            /\ cbs'[1].data = slots'[k].data
            /\ cbs'[1].len = slots'[k].data_len

\* C30 (as stated): the slot's data is extended by payload[0..da_len)
\* clamped to 256 bytes: when data_len + da_len exceeds 256 the leading
\* bytes that still fit are appended and data_len becomes 256; last_timestamp
\* and last_ctr take the burst's values; with cont = false the callback gets
\* the accumulated payload and the slot is deactivated.
C30_AsStated ==
    [][ \A k \in SlotIdx :
           AppendStep(k) =>
              /\ slots'[k].data
                    = Leading(slots[k].data
                                 \o SubSeq(last'.payload, 1, last'.da_len),
                              256)
              /\ slots'[k].data_len = Len(slots'[k].data)
              /\ AppendEpilogue(k)
      ]_vars

\* C30 (amended): the payload is appended when data_len + da_len <= 256, and
\* otherwise no byte of it is appended and data_len keeps its value;
\* last_timestamp and last_ctr take the burst's values in both cases; with
\* cont = false the callback gets the accumulated payload and the slot is
\* deactivated.
C30_AppendWhenFits ==
    [][ \A k \in SlotIdx :
           AppendStep(k) =>
              /\ slots'[k].data
                    = (IF slots[k].data_len + last'.da_len <= 256
                       THEN slots[k].data
                               \o SubSeq(last'.payload, 1, last'.da_len)
                       ELSE slots[k].data)
              /\ slots'[k].data_len = Len(slots'[k].data)
              /\ AppendEpilogue(k)
      ]_vars

\* the thirteenth 20-byte burst of a message met a slot that held 240 bytes:
\* the slot still holds 240 bytes, and has the burst's timestamp and counter
C30_Witness ==
    /\ op = "reassemble"
    /\ seq.n = 13
    /\ ~ seq.longGap
    /\ Len(seq.expect) = 260
    /\ last.da_len = 20
    /\ last.cont
    /\ slots[0].active
    /\ slots[0].data_len = 240
    /\ slots[0].data = SubSeq(seq.expect, 1, 240)
    /\ slots[0].last_ctr = last.da_ctr
    /\ slots[0].last_timestamp = last.timestamp

----------------------------------------------------------------------------
(* Slot invariants of the IDA reassembler, on Spec.  The invariants are    *)
(* stated in their inductive form, over every step: what a call may do to  *)
(* a slot, given the burst it was handed.                                  *)

\* slot t was opened by burst b
OpenedBy(t, b) ==
    /\ t.active
    /\ t.direction = b.direction
    /\ t.frequency = b.frequency
    /\ t.last_ctr = b.da_ctr
    /\ t.last_timestamp = b.timestamp

\* burst b was admitted to the open slot s, giving t
AdmittedTo(s, t, b) ==
    /\ s.active
    /\ t.direction = s.direction
    /\ t.frequency = s.frequency
    /\ t.last_ctr = b.da_ctr
    /\ t.last_timestamp = b.timestamp

\* C31: over any sequence of ida_reassemble and ida_reassemble_flush calls,
\* an active slot keeps the direction and anchor frequency of the burst that
\* opened it (appends never change them), its last_ctr and last_timestamp
\* are those of the burst most recently admitted to it, and a slot is
\* inactive right after the call that delivered its message.
C31_SlotInvariants ==
    [][ /\ op' = "reassemble" =>
              \A i \in SlotIdx :
                 \/ slots'[i] = slots[i]
                 \/ /\ ~ slots[i].active \/ \A j \in SlotIdx : slots[j].active
                    /\ OpenedBy(slots'[i], last')
                    /\ cbs' = <<>>
                 \/ /\ AdmittedTo(slots[i], slots'[i], last')
                    /\ slots'[i].active = (cbs' = <<>>)
                    /\ cbs' # <<>> =>
                          /\ cbs'[1].frequency = slots[i].frequency
                          /\ cbs'[1].direction = slots[i].direction
        /\ op' = "flush" =>
              \A i \in SlotIdx :
                 \/ slots'[i] = slots[i]
                 \/ slots'[i] = [slots[i] EXCEPT !.active = FALSE]
      ]_vars

\* slot 0 was opened at the base frequency and a burst 260 Hz higher was then
\* admitted to it: the slot keeps the base frequency and has the burst's
\* counter and timestamp
C31_Witness ==
    /\ op = "reassemble"
    /\ ncalls = 2
    /\ last.crc_ok /\ last.da_len > 0 /\ last.da_ctr = 1 /\ last.cont
    /\ last.frequency = BaseFreq + 260
    /\ slots[0].active
    /\ slots[0].frequency = BaseFreq
    /\ slots[0].direction = last.direction
    /\ slots[0].data_len = 2 * GoodLen
    /\ slots[0].last_ctr = 1
    /\ slots[0].last_timestamp = last.timestamp

\* the call that delivered the message of slot 0 left the slot inactive
DeliveredSlotInactive ==
    /\ op = "reassemble"
    /\ Len(cbs) = 1
    /\ cbs[1].len = 2 * GoodLen
    /\ ~ slots[0].active
    /\ slots[0].data_len = 2 * GoodLen

----------------------------------------------------------------------------
(* Bounds of the reassembly buffers, on SpecBuffers *)

\* C32: in every reachable state each IDA slot has 0 <= data_len <= 256 and
\* an active IDA slot has data_len >= 1, each SBD multi-packet slot has
\* 0 <= data_len <= 1024, and the length handed to the message callback and
\* to the ACARS parser never exceeds the capacity of the buffer.
C32_BuffersBounded ==
    /\ \A i \in SlotIdx :
          /\ slots[i].data_len >= 0
          /\ slots[i].data_len <= 256
          /\ Len(slots[i].data) = slots[i].data_len
          /\ slots[i].active => slots[i].data_len >= 1
    /\ \A i \in MultiIdx :
          /\ sbd_multi[i].data_len >= 0
          /\ sbd_multi[i].data_len <= 1024
          /\ Len(sbd_multi[i].data) = sbd_multi[i].data_len
    /\ \A c \in 1 .. Len(cbs) :
          /\ cbs[c].len >= 0
          /\ cbs[c].len <= 256
          /\ Len(cbs[c].data) = cbs[c].len
    /\ \A d \in 1 .. Len(sbd_dlv) :
          Len(sbd_dlv[d].data) <= 1024

\* the fifth 220-byte packet completed a message of 1100 bytes: the slot
\* holds, and the parser was handed, its first 1024 bytes
C32_Witness ==
    /\ op = "extract"
    /\ Len(sseq.expect) = 1100
    /\ Len(sbd_dlv) = 1
    /\ Len(sbd_dlv[1].data) = 1024
    /\ sbd_dlv[1].data = SubSeq(sseq.expect, 1, 1024)
    /\ \E i \in MultiIdx :
          sbd_multi[i].active = 0 /\ sbd_multi[i].data_len = 1024

\* an IDA slot that holds 240 bytes was handed a 20-byte burst and holds 240
\* bytes still
IdaSlotFull ==
    /\ op = "reassemble"
    /\ Len(seq.expect) = 260
    /\ slots[0].active
    /\ slots[0].data_len = 240

----------------------------------------------------------------------------
(* Properties of descramble_payload's stopping rule (SpecStop)             *)

\* what chase_bch_da makes of word k alone, with the LLRs or without
StopChunk(g, k, soft) ==
    chase_bch_da(StopWord(g, k), IF soft THEN StopWordLlr(g, k) ELSE NoLlr)

\* the first word in decode order that chase_bch_da cannot decode (one past
\* the last word if there is none)
StopFirstBad(g, soft) ==
    LET n   == StopCount(g.nfull, g.remain)
        bad == { k \in 1 .. n : StopChunk(g, k, soft).ret < 0 }
    IN  IF bad = {} THEN n + 1
        ELSE CHOOSE k \in bad : \A j \in bad : k <= j

\* the data words of the first total words, in decode order
RECURSIVE StopStream(_, _, _, _)
StopStream(g, soft, k, total) ==
    IF k > total THEN <<>>
    ELSE StopChunk(g, k, soft).out_data \o StopStream(g, soft, k + 1, total)

\* the number of words the stream holds when decoding also stops at the
\* capacity: a chunk of a full block is decoded while 20 more bits fit; the
\* last block is decoded if no chunk failed and 2 * (remain / 2 - 1) more
\* bits fit, each window while 20 more bits fit
StopTaken(g, soft, max_bch) ==
    LET n     == StopCount(g.nfull, g.remain)
        nf    == 4 * g.nfull
        cap   == max_bch \div BCH_DA_DATA
        first == StopFirstBad(g, soft)
        full  == Min(Min(first - 1, nf), cap)
        fail  == first <= nf /\ first <= cap
        tail  == /\ ~ fail
                 /\ g.remain >= 4
                 /\ BCH_DA_DATA * full + 2 * (g.remain \div 2 - 1) <= max_bch
    IN  IF tail THEN Min(Min(first - 1, n), cap) ELSE full

StopAsStated(g, res, soft) ==
    /\ res.bch_stream = StopStream(g, soft, 1, StopFirstBad(g, soft) - 1)
    /\ res.bch_len = Len(res.bch_stream)
    /\ res.bch_len % BCH_DA_DATA = 0

StopCapped(g, res, soft) ==
    /\ res.bch_stream = StopStream(g, soft, 1, StopTaken(g, soft, IDA_BCH_BUF))
    /\ res.bch_len = Len(res.bch_stream)
    /\ res.bch_len % BCH_DA_DATA = 0
    /\ res.bch_len <= IDA_BCH_BUF

\* C33 as stated: the stream returned by descramble_payload is the
\* concatenation of the data words of the chunks before the first chunk
\* chase_bch_da cannot decode, in decode order, and its length is a multiple
\* of 20.  Violated: of 30 decodable chunks the 512-bit stream holds 25, and
\* after 24 chunks of six full blocks the last block is not decoded.
C33_AsStated ==
    op = "descrambled" =>
        \E b \in {dburst} :
            /\ StopAsStated(dgen, b.soft, TRUE)
            /\ StopAsStated(dgen, b.hard, FALSE)

\* C33 amended: the stream returned by descramble_payload is the
\* concatenation of the data words of the chunks decoded before the first
\* chunk chase_bch_da cannot decode or the capacity stop, whichever comes
\* first; nothing after either contributes, and the length is a multiple of
\* 20 not above max_bch.
C33_StopsAtFailureOrCapacity ==
    op = "descrambled" =>
        \E b \in {dburst} :
            /\ StopCapped(dgen, b.soft, TRUE)
            /\ StopCapped(dgen, b.hard, FALSE)

\* the second chunk of the first of two full blocks cannot be decoded without
\* LLRs: the stream is the first data word, although the six chunks and the
\* two tail windows after it are valid code words; with the LLRs the chunk
\* is repaired and all ten words are returned
C33_Witness ==
    /\ op = "descrambled"
    /\ dgen.nfull = 2
    /\ dgen.remain = 64
    /\ dgen.bad = {2}
    /\ dgen.llr = "good"
    /\ dburst.hard.bch_stream = StopData(1)
    /\ dburst.soft.bch_len = 200
    /\ \A k \in 3 .. 10 : StopChunk(dgen, k, FALSE).ret = 0

\* a failure in the last block: the first tail window decodes, the second
\* does not
StopInTail ==
    /\ op = "descrambled"
    /\ dgen.nfull = 1
    /\ dgen.remain = 64
    /\ dgen.bad = {6}
    /\ dburst.hard.bch_len = 100

\* all 30 chunks decode and the stream holds 25 data words
StopAtCapacity ==
    /\ op = "descrambled"
    /\ dgen.nfull = 7
    /\ dgen.remain = 64
    /\ dgen.bad = {}
    /\ dburst.hard.bch_len = 500

----------------------------------------------------------------------------
(* Properties of the SBD slot table when it is full (SpecSbdTable)         *)

\* slot s is active and not older than the timeout at time now
MultiLive(s, now) ==
    s.active # 0 /\ ~ (now > s.timestamp + SBD_TIMEOUT)

\* slot s holds the packet parsed to p as the start of a message
MultiHolds(s, p, pkt) ==
    /\ s.active = 1
    /\ s.msgno = p.msgno
    /\ s.msgcnt = p.msgcnt
    /\ s.ul = pkt.ul
    /\ s.timestamp = pkt.timestamp
    /\ s.data = p.sbd_data
    /\ s.data_len = Len(p.sbd_data)

\* one call of sbd_extract with a packet that starts a message
MultiStoreStep(p, pkt) ==
    LET full == \A i \in MultiIdx : MultiLive(sbd_multi[i], pkt.timestamp)
    IN  IF full
        THEN /\ \E i \in MultiIdx :
                   /\ \A j \in MultiIdx :
                         sbd_multi[i].timestamp <= sbd_multi[j].timestamp
                   /\ MultiHolds(sbd_multi'[i], p, pkt)
                   /\ \A j \in MultiIdx \ {i} : sbd_multi'[j] = sbd_multi[j]
             /\ sbd_dlv' = <<>>
        ELSE /\ \A j \in MultiIdx :
                   MultiLive(sbd_multi[j], pkt.timestamp)
                      => sbd_multi'[j] = sbd_multi[j]
             /\ \E i \in MultiIdx :
                   /\ ~ MultiLive(sbd_multi[i], pkt.timestamp)
                   /\ MultiHolds(sbd_multi'[i], p, pkt)
             /\ sbd_dlv' = <<>>

\* C34: the table never has more than 8 active slots; when the first packet
\* of a multi-packet message is dispatched and all 8 slots are active, the
\* slot with the smallest timestamp is overwritten by the new message,
\* nothing is delivered and the other slots keep their values; when a slot
\* is free, no active slot is overwritten.
C34_SlotExhaustion ==
    [][op' = "extract" /\ sbd_n' = sbd_n + 1 =>
          \E pkt \in {sbd_in'} :
             \E p \in {SbdParse(pkt.data, pkt.ul)} :
                /\ Cardinality({i \in MultiIdx : sbd_multi'[i].active # 0})
                      <= SBD_MAX_MULTI
                /\ (p.ok /\ p.msgcnt > 1 /\ p.msgno = 1)
                      => MultiStoreStep(p, pkt)]_vars

\* eight messages were in progress, the oldest in slot 2 and in slot 4; the
\* first packet of a ninth took slot 2, and the other seven are as they were
C34_Witness ==
    /\ op = "extract"
    /\ sbd_n = 1
    /\ sseq.times = <<1500, 1400, 1000, 1600, 1000, 1700, 1200, 1300>>
    /\ sbd_in.timestamp = 1800
    /\ sbd_in.data = DlPacket(3, 1, MsgBytes(9, 1))
    /\ sbd_multi[2].data = MsgBytes(9, 1)
    /\ sbd_multi[2].timestamp = 1800
    /\ \A i \in MultiIdx \ {2} :
          /\ sbd_multi[i].active = 1
          /\ sbd_multi[i].data = MsgBytes(i + 1, 1)
          /\ sbd_multi[i].timestamp = sseq.times[i + 1]
    /\ sbd_dlv = <<>>

\* with seven messages in progress the eighth slot is taken
TableFreeSlotTaken ==
    /\ op = "extract"
    /\ sbd_n = 1
    /\ Len(sseq.times) = 7
    /\ sbd_in.timestamp = 1800
    /\ sbd_multi[7].data = MsgBytes(9, 1)
    /\ \A i \in 0 .. 6 : sbd_multi[i].active = 1

----------------------------------------------------------------------------
(* Properties of the active-call table when it is full (SpecVoiceFull)     *)

\* the call holds the frame alone
CallOpenedBy(call, frame) ==
    /\ call.active = 1
    /\ call.n_frames = 1
    /\ call.frames = <<frame>>
    /\ call.first_time = frame.timestamp
    /\ call.last_time = frame.timestamp
    /\ call.freq_sum = frame.frequency

\* the call qualifies for the archive
CallQualifies(call) ==
    /\ call.n_frames >= 3
    /\ VoiceDecodedIn(call.frames, 1, Len(call.frames)) >= 4

\* the step stored the call in the ring, as the newest entry
CallArchived(call) ==
    /\ total_calls' = total_calls + 1
    /\ calls'[call_head].valid = 1
    /\ calls'[call_head].call_id = total_calls
    /\ calls'[call_head].start_time = call.first_time
    /\ calls'[call_head].end_time = call.last_time
    /\ calls'[call_head].n_frames = call.n_frames
    /\ call_frames'[call_head] = call.frames

\* the step left the ring as it was
ArchiveUntouched ==
    /\ total_calls' = total_calls
    /\ calls' = calls
    /\ call_head' = call_head
    /\ call_count' = call_count

\* the step finalized the call: archived if it qualifies (and malloc gave a
\* buffer), discarded otherwise
CallFinalized(call) ==
    IF CallQualifies(call) /\ heap'.bufs = heap.bufs + 1
    THEN CallArchived(call)
    ELSE ArchiveUntouched

FullOldestDiscarded ==
    /\ voc.op = "add"
    /\ voc.n = 1
    /\ voc.idx = 2
    /\ ~ voc.joined
    /\ total_calls = 0
    /\ \A i \in ActiveIdx : active_calls[i].active = 1 /\ active_calls[i].n_frames = 1
    /\ active_calls[2].frames[1].frequency = FullFreq(0) - 100000

----------------------------------------------------------------------------
(* Properties of finalize_call (SpecVoiceFull)                             *)

\* the active calls that qualify for the archive, in the order
\* voice_decode_flush finalizes them
FlushQualified ==
    { i \in ActiveIdx :
        active_calls[i].active # 0 /\ CallQualifies(active_calls[i]) }

\* the ring position that takes active call i in a flush
FlushPos(i) ==
    (call_head + Cardinality({ j \in FlushQualified : j < i }))
       % VOICE_MAX_CALLS

\* C36: finalize_call adds the call to the archive, and 1 to total_calls, if
\* and only if the call has at least 3 frames, at least 4 decoded
\* sub-frames and a PCM buffer; otherwise calls, call_head, call_count and
\* total_calls are unchanged; either way the active call ends inactive with
\* n_frames = 0 and freq_sum = 0.  Stated for the one call finalized by
\* voice_decode_add_frame (the call that timed out, or the oldest of a full
\* table) and for the calls finalized by voice_decode_flush.
C36_FinalizeThresholds ==
    [][ /\ (voc'.op = "add" /\ voc'.idx >= 0 /\ ~ voc'.joined
            /\ active_calls[voc'.idx].active # 0) =>
              \E call \in {active_calls[voc'.idx]} :
                 /\ (CallQualifies(call) /\ heap'.bufs = heap.bufs + 1)
                       <=> CallArchived(call)
                 /\ ~ CallArchived(call) => ArchiveUntouched
                 /\ ~ CallQualifies(call) => heap'.live = heap.live
        /\ (voc'.op = "add" /\ voc'.idx >= 0 /\ voc'.joined) =>
              ArchiveUntouched
        /\ voc'.op = "flush" =>
              /\ total_calls' = total_calls + Cardinality(FlushQualified)
              /\ call_head'
                    = (call_head + Cardinality(FlushQualified))
                         % VOICE_MAX_CALLS
              /\ FlushQualified = {} => ArchiveUntouched
              /\ \A i \in FlushQualified :
                    /\ calls'[FlushPos(i)].valid = 1
                    /\ calls'[FlushPos(i)].start_time
                          = active_calls[i].first_time
                    /\ calls'[FlushPos(i)].n_frames = active_calls[i].n_frames
                    /\ call_frames'[FlushPos(i)] = active_calls[i].frames
              /\ \A i \in ActiveIdx :
                    /\ active_calls'[i].active = 0
                    /\ active_calls'[i].n_frames = 0
                    /\ active_calls'[i].freq_sum = 0 ]_vars

\* eight calls of three frames with four decoded sub-frames were flushed:
\* eight archive entries, no active call
C36_Witness ==
    /\ voc.op = "flush"
    /\ voc.n = 1
    /\ total_calls = 8
    /\ call_count = 8
    /\ \A i \in 0 .. 7 :
          /\ calls[i].valid = 1
          /\ calls[i].n_frames = 3
          /\ VoiceDecodedIn(call_frames[i], 1, 3) = 4
    /\ \A i \in ActiveIdx :
          /\ active_calls[i].active = 0
          /\ active_calls[i].n_frames = 0
          /\ active_calls[i].freq_sum = 0

\* calls of three frames with three decoded sub-frames, and calls of two
\* frames with four, were flushed and the archive is empty
FlushBelowThreshold ==
    /\ voc.op = "flush"
    /\ voc.n = 1
    /\ total_calls = 0
    /\ call_count = 0
    /\ total_frames \in {16, 24}
    /\ heap.bufs = (IF total_frames = 24 THEN 8 ELSE 0)
    /\ heap.live = {}

----------------------------------------------------------------------------
(* Properties of freq_sum (SpecVoiceFull)                                  *)

\* the sum of the frequencies of the frames a .. b
RECURSIVE SumFreqIn(_, _, _)
SumFreqIn(frames, a, b) ==
    IF a > b THEN 0
    ELSE IF a = b THEN frames[a].frequency
    ELSE SumFreqIn(frames, a, (a + b) \div 2)
         + SumFreqIn(frames, (a + b) \div 2 + 1, b)

\* num / den lies between the smallest and the largest frequency of the
\* frames
MeanWithin(num, den, frames) ==
    /\ \E k \in 1 .. Len(frames) : frames[k].frequency * den <= num
    /\ \E k \in 1 .. Len(frames) : frames[k].frequency * den >= num

\* C38 as stated: in every active call freq_sum is the sum of the
\* frequencies of the n_frames stored frames, also after more than
\* VOICE_MAX_FRAMES frames were added, so the mean of an active call and the
\* mean recorded in the archive lie between the smallest and the largest
\* frequency of the call's frames.  Violated by the frame added to a call
\* that holds 2000 frames.
C38_AsStated ==
    /\ \A i \in ActiveIdx :
          active_calls[i].active # 0 =>
             \E call \in {active_calls[i]} :
                /\ Len(call.frames) = call.n_frames
                /\ call.freq_sum = SumFreqIn(call.frames, 1, call.n_frames)
                /\ MeanWithin(call.freq_sum, call.n_frames, call.frames)
    /\ \A i \in CallIdx :
          calls[i].valid # 0 =>
             MeanWithin(calls[i].frequency.num, calls[i].frequency.den,
                        call_frames[i])

\* the same for the calls that hold fewer than VOICE_MAX_FRAMES frames
\* (holds)
SumWhileStored ==
    /\ \A i \in ActiveIdx :
          (active_calls[i].active # 0
           /\ active_calls[i].n_frames < VOICE_MAX_FRAMES) =>
             \E call \in {active_calls[i]} :
                /\ Len(call.frames) = call.n_frames
                /\ call.freq_sum = SumFreqIn(call.frames, 1, call.n_frames)
                /\ MeanWithin(call.freq_sum, call.n_frames, call.frames)
    /\ \A i \in CallIdx :
          (calls[i].valid # 0 /\ calls[i].n_frames < VOICE_MAX_FRAMES) =>
             MeanWithin(calls[i].frequency.num, calls[i].frequency.den,
                        call_frames[i])

\* 2001 frames on one frequency were added to the call in slot 0: it holds
\* 2000 of them and freq_sum is 2001 times the frequency
C38_Witness ==
    /\ voc.op = "add"
    /\ voc.joined
    /\ voc.idx = 0
    /\ total_frames = VOICE_MAX_FRAMES + 1
    /\ active_calls[0].n_frames = VOICE_MAX_FRAMES
    /\ Len(active_calls[0].frames) = VOICE_MAX_FRAMES
    /\ \A k \in 1 .. VOICE_MAX_FRAMES :
          active_calls[0].frames[k].frequency = FullFreq(0)
    /\ voc.frame.frequency = FullFreq(0)
    /\ active_calls[0].freq_sum = FullFreq(0) * (VOICE_MAX_FRAMES + 1)

\* the call was then flushed: the archive records a mean of 1000500 Hz for
\* 2000 frames on 1000000 Hz
LongCallArchived ==
    /\ voc.op = "flush"
    /\ calls[0].valid = 1
    /\ calls[0].n_frames = VOICE_MAX_FRAMES
    /\ calls[0].frequency
          = [num |-> FullFreq(0) * (VOICE_MAX_FRAMES + 1),
             den |-> VOICE_MAX_FRAMES]
    /\ \A k \in 1 .. VOICE_MAX_FRAMES :
          call_frames[0][k].frequency = FullFreq(0)

----------------------------------------------------------------------------
(* Properties of the counter wrap in ida_reassemble (SpecSeq)              *)

\* the active slots with last_ctr = 7 that satisfy the matching rule for b
WrapSlots(table, b) ==
    { i \in SlotIdx :
        /\ table[i].active
        /\ table[i].last_ctr = IDA_CTR_MOD - 1
        /\ FiveConditions(table[i], b) }

\* C37: a CRC-good burst with da_ctr = 0 that satisfies the matching rule
\* for an active slot with last_ctr = 7 is appended to that slot, which is
\* completed if cont = false; the call opens no slot and does not deliver
\* the burst on its own.
C37_MatchBeforeNew ==
    [][ (op' = "reassemble" /\ last'.crc_ok /\ last'.da_len > 0
         /\ last'.da_ctr = 0) =>
           \E W \in {WrapSlots(slots, last')} :
              W # {} =>
                 \E i \in W :
                    /\ IsAppended(slots[i], slots'[i], last')
                    /\ slots'[i].data_len > last'.da_len
                    /\ \A j \in SlotIdx \ {i} : slots'[j] = slots[j]
                    /\ IF last'.cont
                       THEN ret' = 0 /\ cbs' = <<>>
                       ELSE /\ ret' = 1
                            /\ Len(cbs') = 1
                            /\ cbs'[1].data = slots'[i].data
                            /\ cbs'[1].len = slots'[i].data_len ]_vars

\* the ninth burst of a sequence (da_ctr = 0, cont = 1) came within the
\* timeout: slot 0 holds the nine payloads, no other slot is active and
\* nothing was delivered
C37_Witness ==
    /\ op = "reassemble"
    /\ seq.n = 9
    /\ last.da_ctr = 0
    /\ last.cont
    /\ ~ seq.longGap
    /\ slots[0].active
    /\ slots[0].last_ctr = 0
    /\ slots[0].data = seq.expect
    /\ slots[0].data_len = Len(seq.expect)
    /\ \A j \in SlotIdx \ {0} : ~ slots[j].active
    /\ cbs = <<>>

\* the ninth burst was the last of the message: the nine payloads were
\* delivered as one message
WrapCompletes ==
    /\ op = "reassemble"
    /\ seq.n = 9
    /\ last.da_ctr = 0
    /\ ~ last.cont
    /\ ~ seq.longGap
    /\ Len(cbs) = 1
    /\ cbs[1].data = seq.expect
    /\ \A j \in SlotIdx : ~ slots[j].active

----------------------------------------------------------------------------
(* Properties of the record voice_decode_get_call returns (SpecVoiceRing)  *)

\* voice_decode_get_call has returned a record to the query thread, which
\* has made no other call since
RecordHeld ==
    /\ vthr.query = "idle"
    /\ vthr.qop # NoVoc
    /\ vthr.qop.fn = "get_call"
    /\ vthr.result # NoVoc

\* the ring entry the record was read from still holds it, and its PCM
\* buffer is allocated
RecordIntact ==
    /\ \E pos \in CallIdx : calls[pos] = vthr.result
    /\ vthr.result.audio \in heap.live

\* C39 as stated: the record returned by voice_decode_get_call is not
\* overwritten and its PCM buffer is not freed while the caller reads it,
\* whatever finalize_call does on the demodulation thread in the meantime.
\* Violated when the archive is full and the next call is stored over the
\* entry that was returned.
C39_AsStated ==
    RecordHeld => RecordIntact

\* the record is intact as long as fewer than 100 calls were archived after
\* it (holds)
RecordIntactUntilWrap ==
    (RecordHeld /\ total_calls < vthr.result.call_id + VOICE_MAX_CALLS)
       => RecordIntact

\* the query thread holds the record of call 0, returned for index 0 of the
\* full archive; the demodulation thread has since stored call 100 in the
\* same ring entry and freed the buffer of call 0
C39_Witness ==
    /\ RecordHeld
    /\ vthr.qop.index = 0
    /\ vthr.result.call_id = 0
    /\ vthr.result.audio = 1
    /\ calls[0].call_id = VOICE_MAX_CALLS
    /\ calls[0].audio # 1
    /\ 1 \notin heap.live
    /\ \E f \in heap.frees : f.buf = 1 /\ f.locked
    /\ total_calls = VOICE_MAX_CALLS + 1

----------------------------------------------------------------------------
(* Properties of interleaved SBD messages (SpecSbdTable)                   *)

\* the payloads of the packets 1 .. j of message m
RECURSIVE MsgPrefix(_, _)
MsgPrefix(m, j) ==
    IF j = 0 THEN <<>> ELSE MsgPrefix(m, j - 1) \o MsgBytes(m, j)

\* slot s holds the packets 1 .. j of message m and has not timed out at now
MsgInProgress(s, m, j, now) ==
    /\ MultiLive(s, now)
    /\ s.msgno = j
    /\ s.data = MsgPrefix(m, j)

\* C40 as stated: with two downlink messages in progress, a continuation
\* packet of one of them is appended to the slot that holds the earlier
\* packets of that message and to no other; with its last packet the
\* message is delivered, made of its own packets in msgno order.  Violated:
\* the second packet of message 1 is appended to the slot of message 2.
C40_AsStated ==
    [][ (op' = "extract" /\ sbd_n' = sbd_n + 1 /\ Len(sseq.times) = 2) =>
          \A m \in {1, 2}, j \in 2 .. sseq.cnt :
             (sbd_in'.data = DlNextPacket(j, MsgBytes(m, j))) =>
                \A i \in MultiIdx :
                   MsgInProgress(sbd_multi[i], m, j - 1, sbd_in'.timestamp) =>
                      /\ sbd_multi'[i].data = MsgPrefix(m, j)
                      /\ \A k \in MultiIdx \ {i} :
                            sbd_multi'[k].data = sbd_multi[k].data
                      /\ IF j = sseq.cnt
                         THEN /\ Len(sbd_dlv') = 1
                              /\ sbd_dlv'[1].data = MsgPrefix(m, j)
                              /\ sbd_multi'[i].active = 0
                         ELSE /\ sbd_dlv' = <<>>
                              /\ sbd_multi'[i].active # 0 ]_vars

\* messages 1 and 2 of two packets each were in progress in slots 0 and 1;
\* the second packet of message 1 completed the slot of message 2: the
\* message delivered is packet 1 of message 2 followed by packet 2 of
\* message 1, and message 1 waits in slot 0
C40_Witness ==
    /\ op = "extract"
    /\ sbd_n = 1
    /\ sseq.times = <<1000, 1100>>
    /\ sseq.cnt = 2
    /\ sbd_in.data = DlNextPacket(2, MsgBytes(1, 2))
    /\ sbd_in.timestamp = 1800
    /\ Len(sbd_dlv) = 1
    /\ sbd_dlv[1].data = MsgBytes(2, 1) \o MsgBytes(1, 2)
    /\ sbd_multi[1].active = 0
    /\ sbd_multi[0].active = 1
    /\ sbd_multi[0].data = MsgBytes(1, 1)

\* a continuation packet goes to the last slot of its direction that waits
\* for its msgno, whatever message that slot holds (holds)
ContinuationByMsgno ==
    [][ (op' = "extract" /\ sbd_n' = sbd_n + 1) =>
          \E pkt \in {sbd_in'} :
             \E p \in {SbdParse(pkt.data, pkt.ul)} :
                (p.ok /\ p.msgcnt <= 1 /\ p.msgno > 1) =>
                   \E W \in {{ i \in MultiIdx :
                                 /\ MultiLive(sbd_multi[i], pkt.timestamp)
                                 /\ sbd_multi[i].ul = pkt.ul
                                 /\ sbd_multi[i].msgno + 1 = p.msgno }} :
                      \A i \in MultiIdx :
                         (sbd_multi'[i].data # sbd_multi[i].data)
                            => (i \in W /\ \A k \in W : k <= i) ]_vars

====
